---- MODULE Spec2Model ----
(***************************************************************************)
(* Glare artifact repository: the artifact lifecycle, the visibility and  *)
(* uniqueness rules, the blob-slot state machine and the optimistic        *)
(* update of one artifact.  The engine's behaviour is taken from the       *)
(* functional tests (glare/tests/functional/test_artifacts.py) and the     *)
(* sample artifact type (glare/tests/functional/sample_artifact.py);       *)
(* where the tests are silent the design document is followed.             *)
(***************************************************************************)
EXTENDS Integers, Sequences, FiniteSets, TLC

\* ------------------------------------------------------------------ bounds
MaxArt == 2

ArtIds == 1..MaxArt

\* ------------------------------------------------------- response codes
OK == 200
Created == 201
NoContent == 204
BadRequest == 400
Forbidden == 403
NotFound == 404
Conflict == 409
PayloadTooLarge == 413

\* ------------------------------------------------------------- callers
Users == {"user1", "user2", "admin", "anonymous"}

\* Callers whose create requests are enumerated: the two member tenants and
\* the anonymous caller (the admin's own artifacts behave as a member's do
\* towards the other callers).
Creators == {"user1", "user2", "anonymous"}

tenant_id(u) ==
  CASE u = "user1" -> "tenant1"
    [] u = "user2" -> "tenant2"
    [] u = "admin" -> "tenant_admin"
    [] OTHER -> "none"

role(u) ==
  CASE u = "admin" -> "admin"
    [] u = "anonymous" -> "none"
    [] OTHER -> "member"

is_admin(u) == role(u) = "admin"

\* ----------------------------------------------------------- the type
Null == "null"

Names == {"test_af", "test_name_af"}
Versions == {"0.0.1", "0.0.2"}
StrValues == {Null, "string"}

\* Attributes of sample_artifact flagged required_on_activate.
RequiredOnActivate == {"string_required"}

\* Blob slots of sample_artifact flagged required_on_activate: none.
RequiredBlobsOnActivate == {}

\* Values a client may send in a status patch.
StatusValues == {"active", "deactivated", "deleting"}

NoArt ==
  [name |-> "", version |-> "", owner |-> "none", status |-> "none",
   visibility |-> "private", string_required |-> Null,
   string_mutable |-> Null, system_attribute |-> "default"]

\* What is left of a deleted artifact: the row is gone, only its id is used.
Deleted == [NoArt EXCEPT !.status = "deleted"]

VARIABLES art, resp, blobs, store, up, token, log, wr, rows, pager, tags, tx,
          evlog, outbox, bus, proc, coll

blobvars == <<blobs, store, up>>
occvars == <<token, log, wr>>
listvars == <<rows, pager>>
tagvars == <<tags, tx>>
notifyvars == <<evlog, outbox, bus>>
restvars == <<proc, coll>>
vars == <<art, resp, blobs, store, up, token, log, wr, rows, pager, tags, tx,
          evlog, outbox, bus, proc, coll>>

Exists(a) == a.status # "none"
Live(a) == a.status \in {"queued", "active", "deactivated"}

\* The response in flight to the client; NoResp when the server is idle.
NoResp == [op |-> "none", code |-> 0]

\* ----------------------------------------------------------- blob slots
MaxUp == 2
MaxChunks == 3
ChunkSize == 4
\* The upload requests received so far, numbered in the order they arrived.
Uploaders == DOMAIN up

BlobPaths == {"blob", "small_blob"}
small_blob_max_blob_size == 10

\* An optional value: None, or Some(x).
None == <<>>
Some(x) == <<x>>

\* Request bodies are sequences of chunks of ChunkSize bytes each.
Bytes(n) == [i \in 1..n |-> i]
Data == {Bytes(1), Bytes(MaxChunks)}
SizeOf(d) == Len(d) * ChunkSize
md5(d) == <<"md5", d>>

\* What the probe of the external URL reads.
UrlContent == Bytes(2)

Absent ==
  [status |-> "absent", size |-> None, checksum |-> None,
   content_type |-> Null, external |-> FALSE, lease |-> 0]

SavingSlot(w) == [Absent EXCEPT !.status = "saving", !.lease = w]

\* (mutant) the checksum is not recorded when the slot becomes active.
ActiveSlot_NoChecksum(d, ct, ext) ==
  [status |-> "active", size |-> Some(SizeOf(d)), checksum |-> None,
   content_type |-> ct, external |-> ext, lease |-> 0]

ActiveSlot(d, ct, ext) ==
  [status |-> "active", size |-> Some(SizeOf(d)), checksum |-> Some(md5(d)),
   content_type |-> ct, external |-> ext, lease |-> 0]

PendingDelete(s) ==
  IF s.status = "absent" THEN s
  ELSE [s EXCEPT !.status = "pending_delete", !.size = None,
                 !.checksum = None, !.lease = 0]

\* Slot records and stored bytes are kept per (artifact, path); a slot that
\* is absent has no record and no bytes.
Slot(bl, id, p) == IF <<id, p>> \in DOMAIN bl THEN bl[<<id, p>>] ELSE Absent
Stored(st, id, p) == IF <<id, p>> \in DOMAIN st THEN st[<<id, p>>] ELSE <<>>

Put(f, k, v) == [x \in DOMAIN f \cup {k} |-> IF x = k THEN v ELSE f[x]]
Drop(f, k) == [x \in DOMAIN f \ {k} |-> f[x]]

SetSlot(bl, id, p, s) ==
  IF s = Absent THEN Drop(bl, <<id, p>>) ELSE Put(bl, <<id, p>>, s)
SetStored(st, id, p, b) ==
  IF b = <<>> THEN Drop(st, <<id, p>>) ELSE Put(st, <<id, p>>, b)

\* An upload request: streaming or probing while served, done once answered.
NoRequest ==
  [pc |-> "none", id |-> 0, path |-> "", kind |-> "", data |-> <<>>,
   sent |-> 0, code |-> 0, conc |-> FALSE, empty |-> FALSE]

InFlight(r) == r.pc \in {"streaming", "probing"}

\* -------------------------------------------------------- version token
MaxToken == 3
MaxWriters == 2
Writers == 1..MaxWriters

\* A client that updates an artifact: it reads the row, then submits.
NoWriter == [pc |-> "idle", id |-> 0, seen |-> 0, snap |-> NoArt, code |-> 0]

NoOcc ==
  /\ token = [i \in ArtIds |-> 0]
  /\ log = [i \in ArtIds |-> <<>>]

\* No listing is under way.
NoList ==
  /\ rows = <<>>
  /\ pager = <<>>

\* No tags are kept and no tag transaction is open.
NoTags ==
  /\ tags = <<>>
  /\ tx = <<>>

\* No event is recorded, waiting or emitted.
NoEvents ==
  /\ evlog = <<>>
  /\ outbox = <<>>
  /\ bus = <<>>

\* The service process and the collection attributes are left out.
NoRest ==
  /\ proc = <<>>
  /\ coll = <<>>

Init ==
  /\ art = [i \in ArtIds |-> NoArt]
  /\ resp = NoResp
  /\ blobs = <<>>
  /\ store = <<>>
  /\ up = <<>>
  /\ NoOcc
  /\ NoTags
  /\ NoList
  /\ NoEvents
  /\ NoRest
  /\ wr = <<>>

\* ------------------------------------------------------ read scoping
\* (mutant) a private artifact is shown to every tenant.
Visible_AnyTenant(u, a) == Live(a) /\ a.status # "deactivated"

\* (mutant) a public artifact stays visible to all when deactivated.
Visible_PublicDeactivated(u, a) ==
  /\ Live(a)
  /\ \/ is_admin(u)
     \/ a.owner = tenant_id(u)
     \/ a.visibility = "public"

Visible(u, a) ==
  /\ Live(a)
  /\ \/ is_admin(u)
     \/ a.owner = tenant_id(u)
     \/ a.visibility = "public" /\ a.status # "deactivated"

\* ---------------------------------------------------------- uniqueness
\* (mutant) the check looks at active artifacts only.
NameVersionTaken_ActiveOnly(arts, id, n, v, o) ==
  \E j \in ArtIds :
    /\ j # id
    /\ arts[j].status = "active"
    /\ arts[j].visibility = "private"
    /\ arts[j].owner = o
    /\ arts[j].name = n
    /\ arts[j].version = v

\* (mutant) the check looks at the private artifacts of every owner.
NameVersionTaken_AnyOwner(arts, id, n, v, o) ==
  \E j \in ArtIds :
    /\ j # id
    /\ Live(arts[j])
    /\ arts[j].visibility = "private"
    /\ arts[j].name = n
    /\ arts[j].version = v

\* A private artifact of the same owner already holds (name, version).
NameVersionTaken(arts, id, n, v, o) ==
  \E j \in ArtIds :
    /\ j # id
    /\ Live(arts[j])
    /\ arts[j].visibility = "private"
    /\ arts[j].owner = o
    /\ arts[j].name = n
    /\ arts[j].version = v

\* (mutant) the check looks at the publisher's own artifacts only.
PublicNameVersionTaken_SameOwner(arts, id, n, v) ==
  \E j \in ArtIds :
    /\ j # id
    /\ Live(arts[j])
    /\ arts[j].visibility = "public"
    /\ arts[j].owner = arts[id].owner
    /\ arts[j].name = n
    /\ arts[j].version = v

\* A public artifact, of any owner, already holds (name, version).
PublicNameVersionTaken(arts, id, n, v) ==
  \E j \in ArtIds :
    /\ j # id
    /\ Live(arts[j])
    /\ arts[j].visibility = "public"
    /\ arts[j].name = n
    /\ arts[j].version = v

\* --------------------------------------------------- lifecycle guards
\* (mutant) activation skips the required_on_activate check.
RequiredOnActivateSet_Skipped(a) == TRUE

RequiredOnActivateSet(a) ==
  \A f \in RequiredOnActivate : a[f] # Null

\* (mutant) a queued artifact can be deactivated.
DeactivateAllowedFrom_Queued(st) == st \in {"queued", "active"}

DeactivateAllowedFrom(st) == st = "active"

\* (mutant) a deactivated artifact can be published.
PublishAllowedFrom_Deactivated(st) == st \in {"active", "deactivated"}

PublishAllowedFrom(st) == st = "active"

MayActivate(u, a) == is_admin(u) \/ a.owner = tenant_id(u)

\* (mutant) every member may deactivate.
MayDeactivate_Member(u) == role(u) \in {"admin", "member"}

MayDeactivate(u) == is_admin(u)

MayPublish(u) == is_admin(u)

\* (mutant) the owner may delete the artifact after it was published.
MayDelete_Owner(u, a) == is_admin(u) \/ a.owner = tenant_id(u)

MayDelete(u, a) ==
  IF a.visibility = "public" THEN is_admin(u)
  ELSE is_admin(u) \/ a.owner = tenant_id(u)

\* (mutant) the name stays changeable after activation.
MutableAfterActivate_Name == {"string_mutable", "name"}

\* (mutant) string_required stays changeable after activation.
MutableAfterActivate_Required == {"string_mutable", "string_required"}

\* Attributes that stay changeable once the artifact left queued: the ones
\* declared mutable.
MutableAfterActivate == {"string_mutable"}

\* (mutant) only an admin may modify an artifact that left queued.
MayModify_AdminAfterQueued(u, a) ==
  is_admin(u) \/ (a.owner = tenant_id(u) /\ a.status = "queued")

\* (mutant) the owner may still modify the artifact once it is public.
MayModify_OwnerPublic(u, a) ==
  is_admin(u) \/ (a.owner = tenant_id(u) /\ a.status # "deactivated")

\* The owner may modify the artifact while it is private and not
\* deactivated; an admin always may.
MayModify(u, a) ==
  \/ is_admin(u)
  \/ /\ a.owner = tenant_id(u)
     /\ a.visibility = "private"
     /\ a.status # "deactivated"

\* ------------------------------------------------------------ handlers
Result(c, arts) == [code |-> c, art |-> arts]

FreeIds(arts) == {i \in ArtIds : ~Exists(arts[i])}

NewId(arts) == CHOOSE i \in FreeIds(arts) : \A j \in FreeIds(arts) : i <= j

\* POST /artifacts/sample_artifact
create(arts, u, n, v, sr) ==
  IF role(u) = "none" THEN Result(Forbidden, arts)
  ELSE IF NameVersionTaken(arts, 0, n, v, tenant_id(u))
    THEN Result(Conflict, arts)
  ELSE Result(Created,
         [arts EXCEPT ![NewId(arts)] =
            [name |-> n, version |-> v, owner |-> tenant_id(u),
             status |-> "queued", visibility |-> "private",
             string_required |-> sr, string_mutable |-> Null,
             system_attribute |-> "default"]])

\* PATCH [{op: replace, path: /<f>, value: val}], f an ordinary attribute
update(arts, u, id, f, val) ==
  LET a == arts[id] IN
  IF ~Visible(u, a) THEN Result(NotFound, arts)
  ELSE IF a[f] = val THEN Result(OK, arts)
  ELSE IF ~MayModify(u, a) THEN Result(Forbidden, arts)
  ELSE IF a.status # "queued" /\ f \notin MutableAfterActivate
    THEN Result(Forbidden, arts)
  ELSE IF /\ f \in {"name", "version"}
          /\ NameVersionTaken(arts, id,
                IF f = "name" THEN val ELSE a.name,
                IF f = "version" THEN val ELSE a.version, a.owner)
    THEN Result(Conflict, arts)
  ELSE Result(OK, [arts EXCEPT ![id][f] = val])

activate(arts, u, id) ==
  LET a == arts[id] IN
  IF ~MayActivate(u, a) THEN Result(Forbidden, arts)
  ELSE IF a.status = "queued" /\ ~RequiredOnActivateSet(a)
    THEN Result(BadRequest, arts)
  ELSE Result(OK, [arts EXCEPT ![id].status = "active"])

deactivate(arts, u, id) ==
  LET a == arts[id] IN
  IF ~MayDeactivate(u) THEN Result(Forbidden, arts)
  ELSE IF ~DeactivateAllowedFrom(a.status) THEN Result(BadRequest, arts)
  ELSE Result(OK, [arts EXCEPT ![id].status = "deactivated"])

SameStatus(a, val) == a.status = val

\* PATCH [{op: replace, path: /status, value: val}]
update_status(arts, u, id, val) ==
  LET a == arts[id] IN
  IF ~Visible(u, a) THEN Result(NotFound, arts)
  ELSE IF SameStatus(a, val) THEN Result(OK, arts)
  ELSE IF val = "active" THEN activate(arts, u, id)
  ELSE IF val = "deactivated" THEN deactivate(arts, u, id)
  ELSE Result(BadRequest, arts)

\* PATCH [{op: replace, path: /visibility, value: val}]
publish(arts, u, id, val) ==
  LET a == arts[id] IN
  IF ~Visible(u, a) THEN Result(NotFound, arts)
  ELSE IF val # "public" THEN Result(BadRequest, arts)
  ELSE IF ~MayPublish(u) THEN Result(Forbidden, arts)
  ELSE IF ~PublishAllowedFrom(a.status) THEN Result(BadRequest, arts)
  ELSE IF a.visibility = "public" THEN Result(OK, arts)
  ELSE IF PublicNameVersionTaken(arts, id, a.name, a.version)
    THEN Result(Conflict, arts)
  ELSE Result(OK, [arts EXCEPT ![id].visibility = "public"])

\* DELETE /artifacts/sample_artifact/{id}
delete(arts, u, id) ==
  LET a == arts[id] IN
  IF ~Visible(u, a) THEN Result(NotFound, arts)
  ELSE IF ~MayDelete(u, a) THEN Result(Forbidden, arts)
  ELSE Result(NoContent, [arts EXCEPT ![id] = Deleted])

delete_blobs(bl, id) ==
  [k \in DOMAIN bl |-> IF k[1] = id THEN PendingDelete(bl[k]) ELSE bl[k]]

\* ------------------------------------------------------------- actions
\* A request is handled in one transaction; its response is then returned.
Respond(op, r) ==
  /\ resp = NoResp
  /\ art' = r.art
  /\ resp' = [op |-> op, code |-> r.code]
  /\ UNCHANGED <<blobvars, occvars, listvars, tagvars, notifyvars, restvars>>

Return ==
  /\ resp # NoResp
  /\ resp' = NoResp
  /\ UNCHANGED <<art, blobvars, occvars, listvars, tagvars, notifyvars, restvars>>

Create ==
  \E u \in Creators, n \in Names, v \in Versions, sr \in StrValues :
    /\ FreeIds(art) # {}
    /\ Respond("create", create(art, u, n, v, sr))

UpdateName ==
  \E u \in Users, id \in ArtIds, n \in Names :
    Respond("update", update(art, u, id, "name", n))

UpdateVersion ==
  \E u \in Users, id \in ArtIds, v \in Versions :
    Respond("update", update(art, u, id, "version", v))

UpdateAttr ==
  \E u \in Users, id \in ArtIds, s \in StrValues :
    Respond("update", update(art, u, id, "string_required", s))

UpdateStatus ==
  \E u \in Users, id \in ArtIds, val \in StatusValues :
    Respond("status_" \o val, update_status(art, u, id, val))

Publish ==
  \E u \in Users, id \in ArtIds, val \in {"public", "private"} :
    Respond("visibility_" \o val, publish(art, u, id, val))

\* Deleting the artifact marks its blob slots for the sweeper.
Delete ==
  \E u \in Users, id \in ArtIds :
    LET r == delete(art, u, id) IN
    /\ resp = NoResp
    /\ art' = r.art
    /\ resp' = [op |-> "delete", code |-> r.code]
    /\ blobs' = IF r.code = NoContent
                 THEN delete_blobs(blobs, id)
                 ELSE blobs
    /\ UNCHANGED <<store, up, occvars, listvars, tagvars, notifyvars, restvars>>

Next ==
  \/ Return
  \/ Create
  \/ UpdateName
  \/ UpdateVersion
  \/ UpdateAttr
  \/ UpdateStatus
  \/ Publish
  \/ Delete

Spec == Init /\ [][Next]_vars

\* The requests that take and leave (name, version) keys: create, rename,
\* change of version and delete, on artifacts that stay queued and private.
NextKey ==
  \/ Return
  \/ Create
  \/ UpdateName
  \/ UpdateVersion
  \/ Delete

SpecKey == Init /\ [][NextKey]_vars

\* ------------------------------------------------- blob upload and download
\* (mutant) max_blob_size is not enforced.
Exceeds_NoLimit(path, n) == FALSE

Exceeds(path, n) == path = "small_blob" /\ n > small_blob_max_blob_size

\* (mutant) only a completed blob blocks a new upload.
SlotFree_NotActive(s) == s.status # "active"

SlotFree(s) == s.status = "absent"

\* (mutant) a slot still being written can be read.
Downloadable_WhileSaving(s) == s.status \in {"active", "saving"}

Downloadable(s) == s.status = "active"

\* (mutant) the owner may upload whatever the status of the artifact is.
MayUpload_OwnerAlways(u, a) == is_admin(u) \/ a.owner = tenant_id(u)

MayUpload(u, a) ==
  is_admin(u) \/ (a.owner = tenant_id(u) /\ a.status = "queued")

\* (mutant) the owner may download while the artifact is deactivated.
MayDownload_Owner(u, a) ==
  is_admin(u) \/ a.owner = tenant_id(u) \/ a.status # "deactivated"

MayDownload(u, a) == is_admin(u) \/ a.status # "deactivated"

\* (mutant) the permission to upload is checked before the artifact is
\* looked up for the caller.
upload_check_PermissionFirst(arts, bl, u, id, path) ==
  LET a == arts[id] IN
  IF Live(a) /\ ~MayUpload(u, a) THEN Forbidden
  ELSE IF ~Visible(u, a) THEN NotFound
  ELSE IF ~SlotFree(Slot(bl, id, path)) THEN Conflict
  ELSE 0

\* PUT /artifacts/sample_artifact/{id}/{path}: what is checked before any
\* byte is read; 0 lets the upload go on.
upload_check(arts, bl, u, id, path) ==
  LET a == arts[id] IN
  IF ~Visible(u, a) THEN NotFound
  ELSE IF ~MayUpload(u, a) THEN Forbidden
  ELSE IF ~SlotFree(Slot(bl, id, path)) THEN Conflict
  ELSE 0

\* GET /artifacts/sample_artifact/{id}/{path}
download(arts, bl, st, u, id, path) ==
  LET a == arts[id] IN
  IF ~Visible(u, a) THEN [code |-> NotFound, body |-> <<>>]
  ELSE IF ~MayDownload(u, a) THEN [code |-> Forbidden, body |-> <<>>]
  ELSE IF path \notin BlobPaths THEN [code |-> BadRequest, body |-> <<>>]
  ELSE IF ~Downloadable(Slot(bl, id, path)) THEN [code |-> BadRequest, body |-> <<>>]
  ELSE [code |-> OK,
        body |-> IF Slot(bl, id, path).external THEN UrlContent
                 ELSE Stored(st, id, path)]

\* The record kept of an answered upload request.
Done(r, c) ==
  [NoRequest EXCEPT !.pc = "done", !.id = r.id, !.path = r.path, !.code = c,
               !.conc = r.conc, !.empty = r.empty,
               !.kind = IF c = OK THEN r.kind ELSE "",
               !.data = IF c = OK THEN r.data ELSE <<>>]

HoldsLease(w) ==
  /\ up[w].pc = "streaming"
  /\ Slot(blobs, up[w].id, up[w].path).status = "saving"
  /\ Slot(blobs, up[w].id, up[w].path).lease = w

BeginUpload ==
  \E u \in {"user1", "user2", "admin"}, id \in ArtIds,
     path \in BlobPaths, kind \in {"bytes", "external"}, d \in Data :
    LET w == Len(up) + 1
        c == upload_check(art, blobs, u, id, path)
        authorized == c \in {0, Conflict}
        others == {x \in Uploaders :
                     InFlight(up[x]) /\ up[x].id = id /\ up[x].path = path}
        req == [NoRequest EXCEPT !.id = id, !.path = path, !.kind = kind,
                            !.data = IF kind = "bytes" THEN d ELSE UrlContent,
                            !.conc = authorized /\ others # {},
                            !.empty = Slot(blobs, id, path).status # "active"]
    IN
    /\ Len(up) < MaxUp
    /\ Exists(art[id])
    /\ kind = "external" => d = Bytes(1)
    /\ up' = [x \in 1..w |->
                IF x = w
                  THEN IF c # 0 THEN Done(req, c)
                       ELSE [req EXCEPT !.pc = IF kind = "bytes"
                                                THEN "streaming" ELSE "probing"]
                ELSE IF authorized /\ x \in others
                  THEN [up[x] EXCEPT !.conc = TRUE]
                ELSE up[x]]
    /\ blobs' = IF c = 0 /\ kind = "bytes"
                 THEN SetSlot(blobs, id, path, SavingSlot(w))
                 ELSE blobs
    /\ UNCHANGED <<art, resp, store, occvars, listvars, tagvars, notifyvars, restvars>>

\* The lease is released and the partial bytes are discarded.
Abort(w, c) ==
  /\ blobs' = SetSlot(blobs, up[w].id, up[w].path, Absent)
  /\ store' = SetStored(store, up[w].id, up[w].path, <<>>)
  /\ up' = [up EXCEPT ![w] = Done(up[w], c)]

StreamChunk ==
  \E w \in Uploaders :
    LET r == up[w]
        written == Append(Stored(store, r.id, r.path), r.data[r.sent + 1])
    IN
    /\ HoldsLease(w)
    /\ r.sent < Len(r.data)
    /\ IF Exceeds(r.path, SizeOf(written))
         THEN Abort(w, PayloadTooLarge)
         ELSE /\ store' = SetStored(store, r.id, r.path, written)
              /\ up' = [up EXCEPT ![w].sent = r.sent + 1]
              /\ UNCHANGED blobs
    /\ UNCHANGED <<art, resp, occvars, listvars, tagvars, notifyvars, restvars>>

\* The object store fails: Internal.
IOError ==
  \E w \in Uploaders :
    /\ HoldsLease(w)
    /\ Abort(w, 500)
    /\ UNCHANGED <<art, resp, occvars, listvars, tagvars, notifyvars, restvars>>

\* The deadline passes at a chunk boundary; the client gets no answer.
Cancel ==
  \E w \in Uploaders :
    /\ HoldsLease(w)
    /\ Abort(w, 0)
    /\ UNCHANGED <<art, resp, occvars, listvars, tagvars, notifyvars, restvars>>

FinalizeUpload ==
  \E w \in Uploaders :
    LET r == up[w] IN
    /\ HoldsLease(w)
    /\ r.sent = Len(r.data)
    /\ blobs' = SetSlot(blobs, r.id, r.path,
                        ActiveSlot(Stored(store, r.id, r.path),
                                   "application/octet-stream", FALSE))
    /\ up' = [up EXCEPT ![w] = Done(r, OK)]
    /\ UNCHANGED <<art, resp, store, occvars, listvars, tagvars, notifyvars, restvars>>

\* The artifact was deleted while the request was in progress.
LeaseLost ==
  \E w \in Uploaders :
    /\ InFlight(up[w])
    /\ ~Live(art[up[w].id])
    /\ up' = [up EXCEPT ![w] = Done(up[w], NotFound)]
    /\ UNCHANGED <<art, resp, blobs, store, occvars, listvars, tagvars, notifyvars, restvars>>

ProbeFail ==
  \E w \in Uploaders :
    /\ up[w].pc = "probing"
    /\ up' = [up EXCEPT ![w] = Done(up[w], BadRequest)]
    /\ UNCHANGED <<art, resp, blobs, store, occvars, listvars, tagvars, notifyvars, restvars>>

RegisterExternal ==
  \E w \in Uploaders :
    LET r == up[w] IN
    /\ r.pc = "probing"
    /\ Live(art[r.id])
    /\ IF SlotFree(Slot(blobs, r.id, r.path))
         THEN /\ blobs' = SetSlot(blobs, r.id, r.path,
                                  ActiveSlot(r.data, "text/plain", TRUE))
              /\ up' = [up EXCEPT ![w] = Done(r, OK)]
         ELSE /\ up' = [up EXCEPT ![w] = Done(r, Conflict)]
              /\ UNCHANGED blobs
    /\ UNCHANGED <<art, resp, store, occvars, listvars, tagvars, notifyvars, restvars>>

Download ==
  \E u \in {"user1", "user2", "admin"}, id \in ArtIds,
     path \in BlobPaths \cup {"not_a_blob"} :
    LET r == download(art, blobs, store, u, id, path) IN
    /\ resp = NoResp
    /\ Exists(art[id])
    /\ resp' = [op |-> "download", code |-> r.code, body |-> r.body]
    /\ UNCHANGED <<art, blobvars, occvars, listvars, tagvars, notifyvars, restvars>>

\* An artifact as test_upload_blob creates it.
InitBlob ==
  /\ art = [i \in ArtIds |->
              IF i = 1
                THEN [name |-> "test_af", version |-> "0.0.1",
                      owner |-> "tenant1", status |-> "queued",
                      visibility |-> "private", string_required |-> "string",
                      string_mutable |-> Null,
                      system_attribute |-> "default"]
                ELSE NoArt]
  /\ resp = NoResp
  /\ blobs = <<>>
  /\ store = <<>>
  /\ up = <<>>
  /\ NoOcc
  /\ NoTags
  /\ NoList
  /\ NoEvents
  /\ NoRest
  /\ wr = <<>>

NextBlob ==
  \/ Return
  \/ UpdateStatus
  \/ Delete
  \/ BeginUpload
  \/ StreamChunk
  \/ IOError
  \/ Cancel
  \/ FinalizeUpload
  \/ LeaseLost
  \/ ProbeFail
  \/ RegisterExternal
  \/ Download

SpecBlob == InitBlob /\ [][NextBlob]_vars

\* ------------------------------------------------------------ blob leases
\* An upload request can die while it holds the lease of a slot: it neither
\* finalizes nor aborts, and the slot is left in saving with the bytes
\* written so far.  The lease of a request that is no longer served times
\* out.

Dead(r) == r.pc = "dead"

\* (mutant) a lease never times out.
Expired_Never(s) == FALSE

\* The lease of slot s has timed out: its holder is no longer served.
Expired(s) ==
  /\ s.status = "saving"
  /\ s.lease \in Uploaders
  /\ Dead(up[s.lease])

\* The request dies at a blocking point.
Die ==
  \E w \in Uploaders :
    /\ HoldsLease(w)
    /\ up' = [up EXCEPT ![w].pc = "dead"]
    /\ UNCHANGED <<art, resp, blobs, store, occvars, listvars, tagvars,
                   notifyvars, restvars>>

\* The slot returns to absent and the partial bytes are discarded.
LeaseTimeout ==
  \E id \in ArtIds, path \in BlobPaths :
    /\ Expired(Slot(blobs, id, path))
    /\ blobs' = SetSlot(blobs, id, path, Absent)
    /\ store' = SetStored(store, id, path, <<>>)
    /\ UNCHANGED <<art, resp, up, occvars, listvars, tagvars, notifyvars,
                   restvars>>

NextLease ==
  \/ BeginUpload
  \/ StreamChunk
  \/ IOError
  \/ Cancel
  \/ FinalizeUpload
  \/ Die
  \/ LeaseTimeout
  \/ Delete
  \/ LeaseLost
  \/ ProbeFail
  \/ RegisterExternal

\* A request that is served goes on streaming and finalizes, and the timer
\* of a lease fires.
SpecLease ==
  /\ InitBlob
  /\ [][NextLease]_vars
  /\ WF_vars(StreamChunk)
  /\ WF_vars(FinalizeUpload)
  /\ WF_vars(LeaseTimeout)

\* ------------------------------------------------ optimistic concurrency
\* (mutant) the update is written whatever the row's token is.
TokenUnchanged_Ignored(cur, prev) == TRUE

TokenUnchanged(cur, prev) == cur = prev

\* The patches the writers send: a rename, and clearing the required string.
Mutations == {<<"name", "test_name_af">>, <<"string_required", Null>>}

\* UpdateArtifact(id, prevVersionToken, mutations): StaleWrite is answered
\* as Conflict.
UpdateArtifact(arts, tok, id, prev, rec) ==
  IF ~TokenUnchanged(tok[id], prev)
    THEN [code |-> Conflict, art |-> arts, token |-> tok]
    ELSE [code |-> OK, art |-> [arts EXCEPT ![id] = rec],
          token |-> [tok EXCEPT ![id] = @ + 1]]

Load ==
  \E w \in Writers, id \in ArtIds :
    /\ wr[w].pc = "idle"
    /\ Live(art[id])
    /\ token[id] < MaxToken
    /\ wr' = [wr EXCEPT ![w] = [pc |-> "loaded", id |-> id,
                                seen |-> token[id], snap |-> art[id],
                                code |-> 0]]
    /\ UNCHANGED <<art, resp, blobvars, token, log, listvars, tagvars, notifyvars, restvars>>

\* The new record is computed from the row as it was read.
Submit ==
  \E w \in Writers, m \in Mutations :
    LET id == wr[w].id
        rec == [wr[w].snap EXCEPT ![m[1]] = m[2]]
        r == UpdateArtifact(art, token, id, wr[w].seen, rec)
    IN
    /\ wr[w].pc = "loaded"
    /\ art' = r.art
    /\ token' = r.token
    /\ log' = IF r.code = OK
                THEN [log EXCEPT ![id] =
                        Append(@, [writer |-> w, read |-> wr[w].seen,
                                   field |-> m[1], value |-> m[2]])]
                ELSE log
    /\ wr' = [wr EXCEPT ![w] = [pc |-> "done", id |-> id,
                                seen |-> wr[w].seen, snap |-> NoArt,
                                code |-> r.code]]
    /\ UNCHANGED <<resp, blobvars, listvars, tagvars, notifyvars, restvars>>

\* The client may retry after reading the row again.
Retry ==
  \E w \in Writers :
    /\ wr[w].pc = "done"
    /\ wr' = [wr EXCEPT ![w] = NoWriter]
    /\ UNCHANGED <<art, resp, blobvars, token, log, listvars, tagvars, notifyvars, restvars>>

\* The artifact of InitBlob and the clients about to update it.
InitOcc ==
  /\ art = [i \in ArtIds |->
              IF i = 1
                THEN [name |-> "test_af", version |-> "0.0.1",
                      owner |-> "tenant1", status |-> "queued",
                      visibility |-> "private", string_required |-> "string",
                      string_mutable |-> Null,
                      system_attribute |-> "default"]
                ELSE NoArt]
  /\ resp = NoResp
  /\ blobs = <<>>
  /\ store = <<>>
  /\ up = <<>>
  /\ NoOcc
  /\ NoTags
  /\ NoList
  /\ NoEvents
  /\ NoRest
  /\ wr = [w \in Writers |-> NoWriter]

NextOcc == Load \/ Submit \/ Retry

SpecOcc == InitOcc /\ [][NextOcc]_vars

\* ------------------------------------------------------ json-patch update
MaxOps == 2

\* (mutant) owner is an ordinary attribute.
SystemAttrs_OwnerFree == {"system_attribute"}

SystemAttrs == {"system_attribute", "owner"}

\* The operations a patch is made of: replace <path> by <value>.
PatchOps ==
  ({"name"} \X Names) \cup ({"version"} \X Versions)
    \cup ({"string_required"} \X StrValues)
    \cup ({"string_mutable"} \X StrValues)
    \cup {<<"system_attribute", "dummy">>, <<"owner", "any_value">>}
    \cup ({"status"} \X {"active", "deactivated"})
    \cup {<<"visibility", "public">>}

DistinctPaths(ops) ==
  \A i, j \in DOMAIN ops : i # j => ops[i][1] # ops[j][1]

Patches ==
  {ops \in UNION {[1..n -> PatchOps] : n \in 1..MaxOps} : DistinctPaths(ops)}

\* The record the operations produce, applied in order.
RECURSIVE apply_patch(_, _)
apply_patch(a, ops) ==
  IF Len(ops) = 0 THEN a
  ELSE IF Head(ops)[1] = "tags" THEN apply_patch(a, Tail(ops))
  ELSE apply_patch([a EXCEPT ![Head(ops)[1]] = Head(ops)[2]], Tail(ops))

\* (mutant) an attribute the patch leaves with a value counts as changed.
Changes_Touched(a, b) ==
  {f \in DOMAIN a : a[f] # b[f]}
    \cup {f \in {"string_required", "string_mutable"} : b[f] # Null}

\* The attributes whose value differs between two records.
Changes(a, b) == {f \in DOMAIN a : a[f] # b[f]}

\* (mutant) a patch that changes nothing is checked as any other patch.
NoChange_Never(ch) == FALSE

\* A patch that changes nothing is answered without further checks.
NoChange(ch) == ch = {}

\* (mutant) a status or visibility change may come with other changes.
OnlyChange_Ignored(ch, f) == TRUE

OnlyChange(ch, f) == ch = {f}

\* (mutant) a failed patch keeps the mutable attributes it had written.
rollback_KeepsMutable(arts, id, b) ==
  [arts EXCEPT ![id].string_mutable = b.string_mutable]

\* A failed request keeps nothing of the record b it had computed.
rollback(arts, id, b) == arts

\* (mutant) operations on /tags are let through to the patch engine.
PatchShapeValid_TagsAllowed(ops) == TRUE

\* The request body is refused when an operation addresses /tags.
PatchShapeValid(ops) == \A k \in DOMAIN ops : ops[k][1] # "tags"

\* PATCH /artifacts/sample_artifact/{id} with a list of operations
patch(arts, u, id, ops) ==
  LET a == arts[id]
      b == apply_patch(a, ops)
      ch == Changes(a, b)
  IN
  IF ~PatchShapeValid(ops) THEN Result(BadRequest, arts)
  ELSE IF ~Visible(u, a) THEN Result(NotFound, arts)
  ELSE IF \E k \in DOMAIN ops : ops[k][1] \in SystemAttrs
    THEN Result(Forbidden, arts)
  ELSE IF NoChange(ch) THEN Result(OK, arts)
  ELSE IF "status" \in ch
    THEN IF ~OnlyChange(ch, "status")
           THEN Result(BadRequest, rollback(arts, id, b))
           ELSE update_status(arts, u, id, b.status)
  ELSE IF "visibility" \in ch
    THEN IF ~OnlyChange(ch, "visibility")
           THEN Result(BadRequest, rollback(arts, id, b))
           ELSE publish(arts, u, id, b.visibility)
  ELSE IF ~MayModify(u, a) THEN Result(Forbidden, rollback(arts, id, b))
  ELSE IF a.status # "queued" /\ ~(ch \subseteq MutableAfterActivate)
    THEN Result(Forbidden, rollback(arts, id, b))
  ELSE IF /\ ch \cap {"name", "version"} # {}
          /\ NameVersionTaken(arts, id, b.name, b.version, a.owner)
    THEN Result(Conflict, rollback(arts, id, b))
  ELSE Result(OK, [arts EXCEPT ![id] = b])

\* POST /artifacts/sample_artifact with a body; system_attribute is Null
\* when the body does not name it.
create_request(arts, u, body) ==
  IF body.system_attribute # Null THEN Result(Forbidden, arts)
  ELSE create(arts, u, body.name, body.version, body.string_required)

\* GET /artifacts/sample_artifact/{id}
get(arts, u, id) ==
  IF Visible(u, arts[id]) THEN Result(OK, arts) ELSE Result(NotFound, arts)

\* GET /artifacts/sample_artifact: the ids listed for the caller.
list(arts, u) == {i \in ArtIds : Visible(u, arts[i])}

\* The artifact the requests of SpecPatch are sent to.
Target == {i \in ArtIds : \A j \in ArtIds : i <= j}

Patch ==
  \E u \in Users, id \in Target, ops \in Patches :
    LET r == patch(art, u, id, ops) IN
    /\ resp = NoResp
    /\ art' = r.art
    /\ resp' = [op |-> "patch", code |-> r.code, by |-> u, ops |-> ops]
    /\ UNCHANGED <<blobvars, occvars, listvars, tagvars, notifyvars, restvars>>

CreateSystem ==
  \E u \in Creators, n \in Names, v \in Versions :
    Respond("create",
            create_request(art, u, [name |-> n, version |-> v,
                                    string_required |-> Null,
                                    system_attribute |-> "test"]))

DeleteTarget ==
  \E u \in Users, id \in Target :
    LET r == delete(art, u, id) IN
    /\ resp = NoResp
    /\ art' = r.art
    /\ resp' = [op |-> "delete", code |-> r.code, by |-> u]
    /\ blobs' = IF r.code = NoContent THEN delete_blobs(blobs, id) ELSE blobs
    /\ UNCHANGED <<store, up, occvars, listvars, tagvars, notifyvars, restvars>>

Get ==
  \E u \in Users, id \in Target :
    /\ resp = NoResp
    /\ resp' = [op |-> "get", code |-> get(art, u, id).code, by |-> u,
                id |-> id]
    /\ UNCHANGED <<art, blobvars, occvars, listvars, tagvars, notifyvars, restvars>>

List ==
  \E u \in Users :
    /\ resp = NoResp
    /\ resp' = [op |-> "list", code |-> OK, by |-> u, body |-> list(art, u)]
    /\ UNCHANGED <<art, blobvars, occvars, listvars, tagvars, notifyvars, restvars>>

\* Two artifacts of user1, as test_update_artifact_before_activate has them.
InitPatch ==
  /\ art = [i \in ArtIds |->
              IF i = 1
                THEN [name |-> "test_af", version |-> "0.0.1",
                      owner |-> "tenant1", status |-> "queued",
                      visibility |-> "private", string_required |-> Null,
                      string_mutable |-> Null,
                      system_attribute |-> "default"]
              ELSE IF i = 2
                THEN [name |-> "test_name_af", version |-> "0.0.2",
                      owner |-> "tenant1", status |-> "queued",
                      visibility |-> "private", string_required |-> Null,
                      string_mutable |-> Null,
                      system_attribute |-> "default"]
              ELSE NoArt]
  /\ resp = NoResp
  /\ blobs = <<>>
  /\ store = <<>>
  /\ up = <<>>
  /\ NoOcc
  /\ NoTags
  /\ NoList
  /\ NoEvents
  /\ NoRest
  /\ wr = <<>>

NextPatch ==
  \/ Return
  \/ Patch
  \/ CreateSystem
  \/ DeleteTarget
  \/ Get
  \/ List

SpecPatch == InitPatch /\ [][NextPatch]_vars

\* ------------------------------------------------------- sorted listing
MaxRows == 3
MaxSortKeys == 3
RowIds == 1..MaxRows

\* Values of the sortable attributes name ('name0', 'name1' by their
\* number) and int1; float1 is the same for every artifact.
SortValues == {0, 1}
SortKeys == {"name", "int1", "float1"}
Dirs == {"asc", "desc"}

\* The tables a listing is run on: the artifacts the caller can see.
Tables ==
  {[i \in RowIds |-> [id |-> i, name |-> f[i][1], int1 |-> f[i][2],
                      float1 |-> 0]] :
     f \in [RowIds -> SortValues \X SortValues]}

\* sort=k1:dir[,k2:dir...]
Sorts ==
  {srt \in UNION {[1..n -> SortKeys \X Dirs] : n \in 1..MaxSortKeys} :
     \A i, j \in DOMAIN srt : i # j => srt[i][1] # srt[j][1]}

\* An optional filter int1=v.
RowFilters == {<<>>} \cup ({"int1"} \X SortValues)

Queries == [sort : Sorts, limit : 1..MaxRows, filter : RowFilters]

\* The sort keys of a query that are not name.
CustomKeys(srt) == {srt[i][1] : i \in DOMAIN srt} \ {"name"}

\* (mutant) two custom sort keys are accepted.
SortAccepted_TwoCustom(srt) == Cardinality(CustomKeys(srt)) <= 2

\* Sorting by several custom attributes is refused.
SortAccepted(srt) == Cardinality(CustomKeys(srt)) <= 1

\* Rows a and b compared on the sort keys, in order: -1 when a comes first,
\* 1 when b comes first, 0 when the keys do not tell them apart.
RECURSIVE KeyCmp(_, _, _)
KeyCmp(a, b, srt) ==
  IF Len(srt) = 0 THEN 0
  ELSE LET k == Head(srt)[1]
           asc == Head(srt)[2] = "asc"
       IN IF a[k] = b[k] THEN KeyCmp(a, b, Tail(srt))
          ELSE IF (a[k] < b[k]) = asc THEN -1 ELSE 1

\* Row a comes before row b: ties on the sort keys are broken by id desc.
Before(a, b, srt) ==
  \/ KeyCmp(a, b, srt) = -1
  \/ KeyCmp(a, b, srt) = 0 /\ a.id > b.id

\* (mutant) the page after a marker is cut on the sort keys alone.
AfterMarker_KeysOnly(m, r, srt) == KeyCmp(m, r, srt) = -1

\* Row r belongs to the pages after the marker row m.
AfterMarker(m, r, srt) == Before(m, r, srt)

RowMatches(r, f) == f = <<>> \/ r[f[1]] = f[2]

\* The rows of S in the order of the sort.
RECURSIVE SortRows(_, _)
SortRows(S, srt) ==
  IF S = {} THEN <<>>
  ELSE LET first == CHOOSE r \in S :
                      \A x \in S \ {r} : Before(r, x, srt)
       IN <<first>> \o SortRows(S \ {first}, srt)

\* GET /artifacts/sample_artifact?sort=..&limit=..[&marker=id]: the ids of
\* the page and the marker of the next one, 0 when there is none.
list_page(tbl, q, marker) ==
  LET matching == {tbl[i] : i \in {j \in DOMAIN tbl : RowMatches(tbl[j], q.filter)}}
      rest == IF marker = 0 THEN matching
              ELSE {r \in matching : AfterMarker(tbl[marker], r, q.sort)}
      ordered == SortRows(rest, q.sort)
      n == IF Len(ordered) < q.limit THEN Len(ordered) ELSE q.limit
      page == [k \in 1..n |-> ordered[k].id]
  IN [page |-> page,
      next |-> IF Len(ordered) > n THEN page[n] ELSE 0]

NoPager == [pc |-> "idle", code |-> 0]

\* The first page of a listing, or 400 for a sort that is not accepted.
ListFirst ==
  \E q \in Queries :
    /\ pager = NoPager
    /\ pager' = IF ~SortAccepted(q.sort)
                  THEN [pc |-> "done", code |-> BadRequest, query |-> q,
                        marker |-> 0, got |-> <<>>, pages |-> 0]
                ELSE LET r == list_page(rows, q, 0) IN
                     [pc |-> IF r.next = 0 THEN "done" ELSE "more",
                      code |-> OK, query |-> q, marker |-> r.next,
                      got |-> r.page, pages |-> 1]
    /\ UNCHANGED <<art, resp, blobvars, occvars, rows, tagvars, notifyvars, restvars>>

\* The page the client gets by following next.
ListNext ==
  LET r == list_page(rows, pager.query, pager.marker) IN
  /\ pager.pc = "more"
  /\ pager' = [pager EXCEPT !.pc = IF r.next = 0 THEN "done" ELSE "more",
                            !.marker = r.next,
                            !.got = pager.got \o r.page,
                            !.pages = pager.pages + 1]
  /\ UNCHANGED <<art, resp, blobvars, occvars, rows, tagvars, notifyvars, restvars>>

InitPage ==
  /\ art = [i \in ArtIds |-> NoArt]
  /\ resp = NoResp
  /\ blobs = <<>>
  /\ store = <<>>
  /\ up = <<>>
  /\ NoOcc
  /\ NoTags
  /\ NoEvents
  /\ NoRest
  /\ wr = <<>>
  /\ rows \in Tables
  /\ pager = NoPager

NextPage == ListFirst \/ ListNext

SpecPage == InitPage /\ [][NextPage]_vars

\* ------------------------------------------------------ filtered listing
MaxFilters == 2

TagNames == {"tag4", "tag5"}

\* The kinds of artifacts test_artifact_filters lists: int1 is 1024 (0) or
\* 2048 (1), with none, one or both of the tags.
RowKinds ==
  {<<0, {}>>, <<0, {"tag4"}>>, <<1, {"tag5"}>>, <<1, {"tag4", "tag5"}>>}

TaggedTables ==
  {[i \in RowIds |-> [id |-> i, int1 |-> f[i][1], tags |-> f[i][2]]] :
     f \in [RowIds -> RowKinds]}

\* attr=[op:]value for int1, tags=a,b and tags-any=a,b.
Filters ==
  ({"int1"} \X {"eq", "neq", "gt", "lt"} \X SortValues)
    \cup ({"tags"} \X {"all"} \X SUBSET TagNames)
    \cup ({"tags-any"} \X {"any"} \X (SUBSET TagNames \ {{}}))

\* The filters of a query; the same key may occur several times.
FilterQueries ==
  UNION {{{fs[i] : i \in DOMAIN fs} : fs \in [1..n -> Filters]} :
           n \in 0..MaxFilters}

Compare(op, x, v) ==
  CASE op = "eq" -> x = v
    [] op = "neq" -> x # v
    [] op = "gt" -> x > v
    [] op = "lt" -> x < v

\* (mutant) tags=a,b keeps the rows that hold one of the tags.
with_tags_Any(S, ts) ==
  IF ts = {} THEN S ELSE {r \in S : r.tags \cap ts # {}}

\* tags=a,b: the rows are narrowed tag by tag.
RECURSIVE with_tags(_, _)
with_tags(S, ts) ==
  IF ts = {} THEN S
  ELSE LET t == CHOOSE x \in ts : TRUE
       IN with_tags({r \in S : t \in r.tags}, ts \ {t})

\* tags-any=a,b: the rows found for each of the tags, put together.
with_any_tag(S, ts) == UNION {{r \in S : t \in r.tags} : t \in ts}

filter_rows(S, f) ==
  CASE f[1] = "int1" -> {r \in S : Compare(f[2], r.int1, f[3])}
    [] f[1] = "tags" -> with_tags(S, f[3])
    [] f[1] = "tags-any" -> with_any_tag(S, f[3])

\* Every filter of the query narrows the rows found so far.
RECURSIVE apply_filters(_, _)
apply_filters(S, fs) ==
  IF fs = {} THEN S
  ELSE LET f == CHOOSE x \in fs : TRUE
       IN apply_filters(filter_rows(S, f), fs \ {f})

\* GET /artifacts/sample_artifact?<filters>: the ids returned.
list_filtered(tbl, fs) ==
  {r.id : r \in apply_filters({tbl[i] : i \in DOMAIN tbl}, fs)}

ListFiltered ==
  \E fs \in FilterQueries :
    /\ pager = NoPager
    /\ pager' = [pc |-> "done", code |-> OK, filters |-> fs,
                 result |-> list_filtered(rows, fs)]
    /\ UNCHANGED <<art, resp, blobvars, occvars, rows, tagvars, notifyvars, restvars>>

InitFilter ==
  /\ art = [i \in ArtIds |-> NoArt]
  /\ resp = NoResp
  /\ blobs = <<>>
  /\ store = <<>>
  /\ up = <<>>
  /\ NoOcc
  /\ NoTags
  /\ NoEvents
  /\ NoRest
  /\ wr = <<>>
  /\ rows \in TaggedTables
  /\ pager = NoPager

NextFilter == ListFiltered

SpecFilter == InitFilter /\ [][NextFilter]_vars

\* ------------------------------------------------------------------ tags
\* The tag set of an artifact is kept in its own table: `tags' maps an
\* artifact id to its set of tags.  It is read and written through
\* /artifacts/sample_artifact/{id}/tags only.

\* The set the artifact of the tag test is created with.
InitialTags == {"tag1", "tag2"}

\* The bodies sent with PUT .../tags.
TagBodies == {{"new_tag1", "new_tag2"}, {"tag1", "new_tag1"}}

\* The operations on /tags a json-patch may carry: replace with a value,
\* and remove (no value).
TagOps == {<<"tags", "test_af">>, <<"tags", Null>>}

\* Patches with an operation on /tags, alone or next to another operation.
TagPatches ==
  {<<t>> : t \in TagOps}
    \cup {<<t, o>> : t \in TagOps, o \in PatchOps}
    \cup {<<o, t>> : t \in TagOps, o \in PatchOps}

\* The tag set a patch engine would store for the operations on /tags.
RECURSIVE patch_tags(_, _)
patch_tags(ts, ops) ==
  IF Len(ops) = 0 THEN ts
  ELSE IF Head(ops)[1] # "tags" THEN patch_tags(ts, Tail(ops))
  ELSE IF Head(ops)[2] = Null THEN patch_tags({}, Tail(ops))
  ELSE patch_tags({Head(ops)[2]}, Tail(ops))

TagResult(c, tbl) == [code |-> c, tags |-> tbl]

\* ReplaceTags(id, tags): the whole set is swapped.
replace_tags(tbl, id, ts) == [tbl EXCEPT ![id] = ts]

\* DeleteTags(id)
delete_tags(tbl, id) == [tbl EXCEPT ![id] = {}]

\* PUT /artifacts/sample_artifact/{id}/tags
set_tags(tbl, arts, u, id, ts) ==
  LET a == arts[id] IN
  IF ~Visible(u, a) THEN TagResult(NotFound, tbl)
  ELSE IF ~MayModify(u, a) THEN TagResult(Forbidden, tbl)
  ELSE TagResult(OK, replace_tags(tbl, id, ts))

\* DELETE /artifacts/sample_artifact/{id}/tags
clear_tags(tbl, arts, u, id) ==
  LET a == arts[id] IN
  IF ~Visible(u, a) THEN TagResult(NotFound, tbl)
  ELSE IF ~MayModify(u, a) THEN TagResult(Forbidden, tbl)
  ELSE TagResult(NoContent, delete_tags(tbl, id))

\* GET /artifacts/sample_artifact/{id}/tags
get_tags(tbl, arts, u, id) ==
  IF Visible(u, arts[id]) THEN [code |-> OK, body |-> tbl[id]]
  ELSE [code |-> NotFound, body |-> {}]

PatchTags ==
  \E u \in Users, id \in Target, ops \in TagPatches :
    LET r == patch(art, u, id, ops) IN
    /\ resp = NoResp
    /\ art' = r.art
    /\ tags' = IF r.code = OK
                 THEN [tags EXCEPT ![id] = patch_tags(tags[id], ops)]
                 ELSE tags
    /\ resp' = [op |-> "patch", code |-> r.code, by |-> u, ops |-> ops]
    /\ UNCHANGED <<blobvars, occvars, listvars, tx, notifyvars, restvars>>

PutTags ==
  \E u \in Users, id \in Target, ts \in TagBodies :
    LET r == set_tags(tags, art, u, id, ts) IN
    /\ resp = NoResp
    /\ tags' = r.tags
    /\ resp' = [op |-> "put_tags", code |-> r.code, by |-> u, body |-> ts]
    /\ UNCHANGED <<art, blobvars, occvars, listvars, tx, notifyvars, restvars>>

DeleteTags ==
  \E u \in Users, id \in Target :
    LET r == clear_tags(tags, art, u, id) IN
    /\ resp = NoResp
    /\ tags' = r.tags
    /\ resp' = [op |-> "delete_tags", code |-> r.code, by |-> u, body |-> {}]
    /\ UNCHANGED <<art, blobvars, occvars, listvars, tx, notifyvars, restvars>>

GetTags ==
  \E u \in Users, id \in Target :
    LET r == get_tags(tags, art, u, id) IN
    /\ resp = NoResp
    /\ resp' = [op |-> "get_tags", code |-> r.code, by |-> u, body |-> r.body]
    /\ UNCHANGED <<art, blobvars, occvars, listvars, tags, tx, notifyvars, restvars>>

\* The artifact of the tag test: user1's, queued and private, created with
\* tags and with its required attribute set.
InitTags ==
  /\ art = [i \in ArtIds |->
              IF i = 1
                THEN [name |-> "test_af", version |-> "0.0.1",
                      owner |-> "tenant1", status |-> "queued",
                      visibility |-> "private", string_required |-> "string",
                      string_mutable |-> Null,
                      system_attribute |-> "default"]
              ELSE NoArt]
  /\ resp = NoResp
  /\ blobs = <<>>
  /\ store = <<>>
  /\ up = <<>>
  /\ NoOcc
  /\ NoList
  /\ NoEvents
  /\ NoRest
  /\ wr = <<>>
  /\ tags = [i \in ArtIds |-> IF i = 1 THEN InitialTags ELSE {}]
  /\ tx = <<>>

NextTags ==
  \/ Return
  \/ UpdateStatus
  \/ Publish
  \/ PatchTags
  \/ PutTags
  \/ DeleteTags
  \/ GetTags

SpecTags == InitTags /\ [][NextTags]_vars

\* ------------------------------------------------- tag replacement in flight
\* ReplaceTags(id, tags) of the persistence gateway, step by step: a writer
\* opens a transaction, deletes the tag rows of the artifact, inserts the
\* new rows one by one and commits.  The rows it deletes and inserts are
\* its own until the commit, which swaps the whole set.  Readers run next
\* to the writers.

MaxTagWriters == 2

TagWriters == 1..MaxTagWriters

NoTx == [pc |-> "idle", want |-> {}, buf |-> {}]

\* The writers whose transaction has written rows and is not committed.
Writing(txs) == {w \in TagWriters : txs[w].pc \in {"insert", "ready"}}

\* (mutant) a reader sees the rows of a transaction still open.
read_tags_Dirty(tbl, txs, id) ==
  IF Writing(txs) = {} THEN tbl[id]
  ELSE txs[CHOOSE w \in Writing(txs) : \A v \in Writing(txs) : w <= v].buf

\* A reader sees committed rows only.
read_tags(tbl, txs, id) == tbl[id]

BeginReplace(w) ==
  \E ts \in TagBodies :
    /\ tx[w].pc = "idle"
    /\ tx' = [tx EXCEPT ![w] = [pc |-> "delete", want |-> ts,
                                buf |-> tags[1]]]
    /\ UNCHANGED <<art, resp, blobvars, occvars, listvars, tags, notifyvars, restvars>>

TxDelete(w) ==
  /\ tx[w].pc = "delete"
  /\ tx' = [tx EXCEPT ![w].pc = "insert", ![w].buf = {}]
  /\ UNCHANGED <<art, resp, blobvars, occvars, listvars, tags, notifyvars, restvars>>

TxInsert(w) ==
  \E t \in tx[w].want \ tx[w].buf :
    /\ tx[w].pc = "insert"
    /\ tx' = [tx EXCEPT ![w].buf = @ \cup {t},
                        ![w].pc = IF tx[w].buf \cup {t} = tx[w].want
                                    THEN "ready" ELSE "insert"]
    /\ UNCHANGED <<art, resp, blobvars, occvars, listvars, tags, notifyvars, restvars>>

TxCommit(w) ==
  /\ tx[w].pc = "ready"
  /\ tags' = replace_tags(tags, 1, tx[w].buf)
  /\ tx' = [tx EXCEPT ![w].pc = "done"]
  /\ UNCHANGED <<art, resp, blobvars, occvars, listvars, notifyvars, restvars>>

ReadTags ==
  /\ resp' = [op |-> "get_tags", code |-> OK,
              body |-> read_tags(tags, tx, 1)]
  /\ UNCHANGED <<art, blobvars, occvars, listvars, tagvars, notifyvars, restvars>>

\* The published artifact of the tag test, its tags as created and no
\* transaction open.
InitTagTx ==
  /\ art = [i \in ArtIds |->
              IF i = 1
                THEN [name |-> "test_af", version |-> "0.0.1",
                      owner |-> "tenant1", status |-> "active",
                      visibility |-> "public", string_required |-> "string",
                      string_mutable |-> Null,
                      system_attribute |-> "default"]
              ELSE NoArt]
  /\ resp = NoResp
  /\ blobs = <<>>
  /\ store = <<>>
  /\ up = <<>>
  /\ NoOcc
  /\ NoList
  /\ NoEvents
  /\ NoRest
  /\ wr = <<>>
  /\ tags = [i \in ArtIds |-> IF i = 1 THEN InitialTags ELSE {}]
  /\ tx = [w \in TagWriters |-> NoTx]

NextTagTx ==
  \/ \E w \in TagWriters : BeginReplace(w)
  \/ \E w \in TagWriters : TxDelete(w)
  \/ \E w \in TagWriters : TxInsert(w)
  \/ \E w \in TagWriters : TxCommit(w)
  \/ ReadTags

SpecTagTx == InitTagTx /\ [][NextTagTx]_vars

\* ------------------------------------------------------------ notifications
\* The Notification Emitter: a request that commits a mutation hands one
\* event to the emitter after the commit.  `evlog' records, per artifact,
\* the mutations in the order they committed; `outbox' holds, per artifact,
\* the events handed over and not yet sent; `bus' is what the external bus
\* received.  An event is [type, id, seq], seq its place in the artifact's
\* record of commits.

MaxEvents == 3

EventTypes ==
  {"create", "update", "activate", "deactivate", "publish", "delete"}

\* The number of mutations committed so far.
RECURSIVE Committed(_, _)
Committed(lg, ids) ==
  IF ids = {} THEN 0
  ELSE LET i == CHOOSE j \in ids : TRUE
       IN Len(lg[i]) + Committed(lg, ids \ {i})

\* An event is owed when the request committed a change.
Emits(arts, r) == r.art # arts

\* A failed emission is logged and its event given up.
drop(q) == Tail(q)

\* (mutant) the emitter takes the event handed over last.
take_Last(q) == [ev |-> q[Len(q)], rest |-> SubSeq(q, 1, Len(q) - 1)]

\* The emitter takes the events of an artifact in the order handed over.
take(q) == [ev |-> Head(q), rest |-> Tail(q)]

\* A request of the given event type on artifact id, answered r.
Notified(type, id, r) ==
  /\ resp = NoResp
  /\ Committed(evlog, ArtIds) < MaxEvents
  /\ art' = r.art
  /\ resp' = [op |-> type, code |-> r.code, id |-> id]
  /\ IF Emits(art, r)
       THEN /\ evlog' = [evlog EXCEPT ![id] = Append(@, type)]
            /\ outbox' = [outbox EXCEPT ![id] =
                            Append(@, [type |-> type, id |-> id,
                                       seq |-> Len(evlog[id]) + 1])]
       ELSE UNCHANGED <<evlog, outbox>>
  /\ UNCHANGED <<blobvars, occvars, listvars, tagvars, bus, restvars>>

NotifyCreate ==
  \E u \in Creators, n \in Names :
    /\ FreeIds(art) # {}
    /\ Notified("create", NewId(art), create(art, u, n, "0.0.1", "string"))

NotifyUpdate ==
  \E u \in Users, id \in ArtIds, s \in StrValues :
    Notified("update", id, update(art, u, id, "string_mutable", s))

NotifyStatus ==
  \E u \in Users, id \in ArtIds, val \in {"active", "deactivated"} :
    Notified(IF val = "active" THEN "activate" ELSE "deactivate", id,
             update_status(art, u, id, val))

NotifyPublish ==
  \E u \in Users, id \in ArtIds :
    Notified("publish", id, publish(art, u, id, "public"))

NotifyDelete ==
  \E u \in Users, id \in ArtIds :
    Notified("delete", id, delete(art, u, id))

\* The emitter sends the next event of an artifact to the bus.
Emit ==
  \E i \in ArtIds :
    /\ outbox[i] # <<>>
    /\ bus' = Append(bus, take(outbox[i]).ev)
    /\ outbox' = [outbox EXCEPT ![i] = take(outbox[i]).rest]
    /\ UNCHANGED <<art, resp, blobvars, occvars, listvars, tagvars, evlog,
                   restvars>>

\* The bus refuses the next event of an artifact.
EmitFails ==
  \E i \in ArtIds :
    /\ outbox[i] # <<>>
    /\ outbox' = [outbox EXCEPT ![i] = drop(@)]
    /\ UNCHANGED <<art, resp, blobvars, occvars, listvars, tagvars, evlog,
                   bus, restvars>>

InitNotify ==
  /\ art = [i \in ArtIds |-> NoArt]
  /\ resp = NoResp
  /\ blobs = <<>>
  /\ store = <<>>
  /\ up = <<>>
  /\ NoOcc
  /\ NoTags
  /\ NoList
  /\ wr = <<>>
  /\ evlog = [i \in ArtIds |-> <<>>]
  /\ outbox = [i \in ArtIds |-> <<>>]
  /\ bus = <<>>
  /\ NoRest

NextNotify ==
  \/ Return
  \/ NotifyCreate
  \/ NotifyUpdate
  \/ NotifyStatus
  \/ NotifyPublish
  \/ NotifyDelete
  \/ Emit
  \/ EmitFails

SpecNotify == InitNotify /\ [][NextNotify]_vars

\* ------------------------------------------------------- service entry point
\* glare/cmd/api.py: main() runs the start-up calls in a try block and
\* hands an exception matched by `except KNOWN_EXCEPTIONS' to fail().
\* `proc' is the process: where it is, the exception raised, how it ended.

KNOWN_EXCEPTIONS ==
  <<"RuntimeError", "WorkerCreationFailure", "BadStoreConfiguration">>

\* The classes an exception raised during start-up may have: the three
\* known ones, two built-in subclasses of RuntimeError and one class
\* outside the tuple.
ExcClasses ==
  {"RuntimeError", "WorkerCreationFailure", "BadStoreConfiguration",
   "NotImplementedError", "RecursionError", "ConfigFilesNotFoundError"}

\* The base class of a class.
Base(c) ==
  IF c \in {"NotImplementedError", "RecursionError"} THEN "RuntimeError"
  ELSE "Exception"

\* isinstance(e, k) for e of class c.
IsInstance(c, k) == c = k \/ Base(c) = k

\* `except KNOWN_EXCEPTIONS as e' matches instances of subclasses too.
Caught(c) ==
  \E k \in DOMAIN KNOWN_EXCEPTIONS : IsInstance(c, KNOWN_EXCEPTIONS[k])

\* tuple.index(x): the position of x, counted from 0; -1 stands for the
\* ValueError raised when x is not in the tuple.
index(t, x) ==
  IF \E k \in DOMAIN t : t[k] = x
    THEN (CHOOSE k \in DOMAIN t : t[k] = x /\ \A j \in 1..(k - 1) : t[j] # x)
           - 1
    ELSE -1

\* The calls of main()'s try block, in order; the fourth is
\* osprofiler.notifier.create and set when cfg.CONF.profiler.enabled, and
\* osprofiler.web.disable otherwise.
MainSteps ==
  <<"parse_args", "set_eventlet_hub", "logging.setup", "profiler",
    "wsgi.Server", "server.start", "server.wait">>

Ended(p, via, code, err) ==
  [p EXCEPT !.pc = "exit", !.via = via, !.code = code, !.stderr = err]

\* fail(e): the return code is looked up by the exact type of e; when the
\* lookup raises, nothing is written and the ValueError leaves main()
\* uncaught: the interpreter prints the traceback and exits with status 1.
fail(p) ==
  LET k == index(KNOWN_EXCEPTIONS, p.exc) IN
  IF k = -1 THEN Ended(p, "uncaught ValueError", 1, "Traceback")
  ELSE Ended(p, "sys.exit", k + 1, "ERROR")

\* A call of the try block returns and the next one starts; when
\* server.wait() returns, main() returns and the process exits with 0.
MainStep ==
  /\ proc.pc = "try"
  /\ proc' = IF proc.step = Len(MainSteps)
               THEN Ended(proc, "return", 0, "")
               ELSE [proc EXCEPT !.step = @ + 1]
  /\ UNCHANGED <<art, resp, blobvars, occvars, listvars, tagvars, notifyvars,
                 coll>>

\* A call of the try block raises: a matched exception goes to fail(), any
\* other leaves main() uncaught.
MainRaise ==
  \E c \in ExcClasses :
    /\ proc.pc = "try"
    /\ proc' = IF Caught(c)
                 THEN [proc EXCEPT !.pc = "except", !.exc = c]
                 ELSE Ended([proc EXCEPT !.exc = c], "uncaught", 1,
                            "Traceback")
    /\ UNCHANGED <<art, resp, blobvars, occvars, listvars, tagvars,
                   notifyvars, coll>>

MainFail ==
  /\ proc.pc = "except"
  /\ proc' = fail(proc)
  /\ UNCHANGED <<art, resp, blobvars, occvars, listvars, tagvars, notifyvars,
                 coll>>

InitMain ==
  /\ art = [i \in ArtIds |-> NoArt]
  /\ resp = NoResp
  /\ blobs = <<>>
  /\ store = <<>>
  /\ up = <<>>
  /\ NoOcc
  /\ NoTags
  /\ NoList
  /\ NoEvents
  /\ wr = <<>>
  /\ \E enabled \in BOOLEAN :
       proc = [pc |-> "try", step |-> 1, profiler |-> enabled, exc |-> Null,
               via |-> "", code |-> -1, stderr |-> ""]
  /\ coll = <<>>

NextMain ==
  \/ MainStep
  \/ MainRaise
  \/ MainFail

SpecMain == InitMain /\ [][NextMain]_vars

\* ------------------------------------------------------- create with a body
\* POST /artifacts/sample_artifact with a json body naming some of the
\* attributes.  A body is a function from the attribute names it carries to
\* their values; list and map values are written as their json text.

\* What a body may carry next to the name.
BodyFields ==
  {"version", "string_required", "list_of_str", "dict_of_str",
   "dict_validators", "visibility", "system_attribute"}

\* The value a body gives an attribute it names.
BodyValue(f) ==
  CASE f = "name" -> "test_af"
    [] f = "version" -> "0.0.1"
    [] f = "string_required" -> "test"
    [] f = "list_of_str" -> "[\"test\"]"
    [] f = "dict_of_str" -> "{\"test\": \"test\"}"
    [] f = "dict_validators" -> "{\"abc\": \"a\"}"
    [] f = "visibility" -> "private"
    [] f = "system_attribute" -> "test"

Bodies ==
  {[f \in fs \cup {"name"} |-> BodyValue(f)] : fs \in SUBSET BodyFields}

\* (mutant) a map that declares default None is filled like any other map.
DeclaredDefault_EmptyMaps(f) ==
  CASE f = "version" -> "0.0.0"
    [] f = "string_required" -> Null
    [] f = "string_mutable" -> Null
    [] f = "list_of_str" -> "[]"
    [] f = "dict_of_str" -> "{}"
    [] f = "dict_validators" -> "{}"
    [] f = "system_attribute" -> "default"
    [] f = "visibility" -> "private"
    [] f = "status" -> "queued"

\* The default the type declares for an attribute the body leaves out.
DeclaredDefault(f) ==
  CASE f = "version" -> "0.0.0"
    [] f = "string_required" -> Null
    [] f = "string_mutable" -> Null
    [] f = "list_of_str" -> "[]"
    [] f = "dict_of_str" -> "{}"
    [] f = "dict_validators" -> Null
    [] f = "system_attribute" -> "default"
    [] f = "visibility" -> "private"
    [] f = "status" -> "queued"

Filled(body, f) == IF f \in DOMAIN body THEN body[f] ELSE DeclaredDefault(f)

\* The record stored for an accepted body.
new_artifact(u, body) ==
  [name |-> body.name, version |-> Filled(body, "version"),
   owner |-> tenant_id(u), status |-> DeclaredDefault("status"),
   visibility |-> DeclaredDefault("visibility"),
   string_required |-> Filled(body, "string_required"),
   string_mutable |-> Filled(body, "string_mutable"),
   system_attribute |-> DeclaredDefault("system_attribute"),
   list_of_str |-> Filled(body, "list_of_str"),
   dict_of_str |-> Filled(body, "dict_of_str"),
   dict_validators |-> Filled(body, "dict_validators")]

\* (mutant) a body that sets the visibility is refused like one that sets
\* a system attribute.
VisibilityRefusal_Forbidden == Forbidden

\* The answer to a body that sets the visibility.
VisibilityRefusal == BadRequest

\* POST /artifacts/sample_artifact
create_artifact(arts, u, body) ==
  IF role(u) = "none" THEN Result(Forbidden, arts)
  ELSE IF "visibility" \in DOMAIN body THEN Result(VisibilityRefusal, arts)
  ELSE IF "system_attribute" \in DOMAIN body THEN Result(Forbidden, arts)
  ELSE IF NameVersionTaken(arts, 0, body.name, Filled(body, "version"),
                           tenant_id(u))
    THEN Result(Conflict, arts)
  ELSE Result(Created, [arts EXCEPT ![NewId(arts)] = new_artifact(u, body)])

\* GET /artifacts/sample_artifact/{id}: the record, when the caller sees it.
get_artifact(arts, u, id) ==
  IF Visible(u, arts[id]) THEN [code |-> OK, body |-> arts[id]]
  ELSE [code |-> NotFound, body |-> NoArt]

\* The first request to an empty repository.
CreateArtifact ==
  \E u \in Creators, body \in Bodies :
    LET r == create_artifact(art, u, body) IN
    /\ resp = NoResp
    /\ FreeIds(art) = ArtIds
    /\ art' = r.art
    /\ resp' = [op |-> "create", code |-> r.code, by |-> u, sent |-> body]
    /\ UNCHANGED <<blobvars, occvars, listvars, tagvars, notifyvars, restvars>>

\* A get that follows the create: the body of the create is kept for
\* comparison.
GetArtifact ==
  \E u \in Users, id \in Target :
    LET r == get_artifact(art, u, id) IN
    /\ resp.op = "create"
    /\ resp.code = Created
    /\ resp' = [op |-> "get", code |-> r.code, by |-> u, creator |-> resp.by,
                sent |-> resp.sent, body |-> r.body]
    /\ UNCHANGED <<art, blobvars, occvars, listvars, tagvars, notifyvars,
                   restvars>>

InitCreate ==
  /\ art = [i \in ArtIds |-> NoArt]
  /\ resp = NoResp
  /\ blobs = <<>>
  /\ store = <<>>
  /\ up = <<>>
  /\ NoOcc
  /\ NoTags
  /\ NoList
  /\ NoEvents
  /\ NoRest
  /\ wr = <<>>

NextCreate ==
  \/ Return
  \/ CreateArtifact
  \/ GetArtifact

SpecCreate == InitCreate /\ [][NextCreate]_vars

\* ------------------------------------------------------------------ versions
\* The version attribute: artifacts of one name and owner are created with
\* versions written in several ways and then listed by version.  `rows' is
\* the sequence of artifacts created, each with the version text sent.

MaxVersions == 3

\* The versions the tests write, and Null for a body without version.
VersionTexts ==
  {Null, "0.0", "0.0.0", "1.0", "1.1", "2.0.0", "2.0.1-beta", "2.0.1",
   "20.0"}

\* The numbers and the pre-release tag a version text is made of.
ParseVersion(t) ==
  CASE t = "0.0" -> [nums |-> <<0, 0>>, pre |-> ""]
    [] t = "0.0.0" -> [nums |-> <<0, 0, 0>>, pre |-> ""]
    [] t = "1.0" -> [nums |-> <<1, 0>>, pre |-> ""]
    [] t = "1.1" -> [nums |-> <<1, 1>>, pre |-> ""]
    [] t = "2.0.0" -> [nums |-> <<2, 0, 0>>, pre |-> ""]
    [] t = "2.0.1-beta" -> [nums |-> <<2, 0, 1>>, pre |-> "beta"]
    [] t = "2.0.1" -> [nums |-> <<2, 0, 1>>, pre |-> ""]
    [] t = "20.0" -> [nums |-> <<20, 0>>, pre |-> ""]

\* The version a text stands for: numbers left out are 0, and so is a
\* version left out.
Coerce(t) ==
  IF t = Null THEN [nums |-> <<0, 0, 0>>, pre |-> ""]
  ELSE LET p == ParseVersion(t)
       IN [nums |-> [k \in 1..3 |-> IF k <= Len(p.nums) THEN p.nums[k]
                                    ELSE 0],
           pre |-> p.pre]

\* (mutant) a pre-release sorts after its release, as its text does.
VersionCmp_Text(a, b) ==
  LET d == {k \in 1..3 : a.nums[k] # b.nums[k]} IN
  IF d # {}
    THEN LET k == CHOOSE x \in d : \A y \in d : x <= y
         IN IF a.nums[k] < b.nums[k] THEN -1 ELSE 1
  ELSE IF a.pre = b.pre THEN 0
  ELSE IF a.pre = "" THEN -1
  ELSE 1

\* -1, 0 or 1 as version a is before, equal to or after version b: the
\* numbers decide in order, then a pre-release is before its release.
VersionCmp(a, b) ==
  LET d == {k \in 1..3 : a.nums[k] # b.nums[k]} IN
  IF d # {}
    THEN LET k == CHOOSE x \in d : \A y \in d : x <= y
         IN IF a.nums[k] < b.nums[k] THEN -1 ELSE 1
  ELSE IF a.pre = b.pre THEN 0
  ELSE IF a.pre = "" THEN 1
  ELSE -1

\* version=<op>:<v>
VersionMatches(t, op, v) ==
  LET c == VersionCmp(Coerce(t), Coerce(v)) IN
  CASE op = "eq" -> c = 0
    [] op = "gte" -> c >= 0
    [] op = "lt" -> c < 0
    [] op = "all" -> TRUE

\* The ids of S ordered by version, ascending.
RECURSIVE SortVersions(_, _)
SortVersions(tbl, S) ==
  IF S = {} THEN <<>>
  ELSE LET m == CHOOSE i \in S :
                  \A j \in S : VersionCmp(Coerce(tbl[i]), Coerce(tbl[j])) <= 0
       IN <<m>> \o SortVersions(tbl, S \ {m})

Reversed(q) == [k \in 1..Len(q) |-> q[Len(q) + 1 - k]]

\* POST with the version text t: 409 when an artifact has that version.
CreateVersion ==
  \E t \in VersionTexts :
    /\ Len(rows) < MaxVersions
    /\ IF \E i \in DOMAIN rows : VersionCmp(Coerce(rows[i]), Coerce(t)) = 0
         THEN /\ rows' = rows
              /\ pager' = [op |-> "create", code |-> Conflict, sent |-> t]
         ELSE /\ rows' = Append(rows, t)
              /\ pager' = [op |-> "create", code |-> Created, sent |-> t]
    /\ UNCHANGED <<art, resp, blobvars, occvars, tagvars, notifyvars, restvars>>

\* GET ?version=<op>:<v>&sort=version:<dir>
ListVersions ==
  \E op \in {"all", "eq", "gte", "lt"}, v \in {"1.1", "2.0.0", "2.0.1-beta"},
     dir \in Dirs :
    LET S == {i \in DOMAIN rows : VersionMatches(rows[i], op, v)}
        asc == SortVersions(rows, S)
    IN
    /\ op = "all" => v = "1.1"
    /\ pager' = [op |-> "list", code |-> OK, filter |-> <<op, v>>,
                 dir |-> dir,
                 result |-> IF dir = "asc" THEN asc ELSE Reversed(asc)]
    /\ UNCHANGED <<art, resp, blobvars, occvars, tagvars, notifyvars, restvars,
                   rows>>

InitVersion ==
  /\ art = [i \in ArtIds |-> NoArt]
  /\ resp = NoResp
  /\ blobs = <<>>
  /\ store = <<>>
  /\ up = <<>>
  /\ NoOcc
  /\ NoTags
  /\ NoEvents
  /\ NoRest
  /\ wr = <<>>
  /\ rows = <<>>
  /\ pager = NoPager

NextVersion == CreateVersion \/ ListVersions

SpecVersion == InitVersion /\ [][NextVersion]_vars

\* ----------------------------------------------------------- list patches
\* Patches on /list_of_str of one artifact.  coll.list is the stored list,
\* coll.last the last request and its answer.  A path is the attribute
\* itself ("") or names an element: an index, written in digits, or "-".

MaxList == 3

ListValues == {"a", "b"}

Indexes == 0..(MaxList + 1)

Tokens == {"", "-"} \cup {ToString(k) : k \in Indexes}

IsIndex(tok) == \E k \in Indexes : ToString(k) = tok

ParseIndex(tok) == CHOOSE k \in Indexes : ToString(k) = tok

WholeLists == {<<>>, <<"a">>, <<"b", "a">>}

\* (mutant) the new element goes after position i.
Insert_After(l, i, v) ==
  IF i >= Len(l) THEN Append(l, v)
  ELSE SubSeq(l, 1, i + 1) \o <<v>> \o SubSeq(l, i + 2, Len(l))

\* list.insert(i, v), i counted from 0
Insert(l, i, v) == SubSeq(l, 1, i) \o <<v>> \o SubSeq(l, i + 1, Len(l))

\* del list[i]
DeleteAt(l, i) == SubSeq(l, 1, i) \o SubSeq(l, i + 2, Len(l))

\* One operation of a patch on the list l: the answer and the list after.
list_patch(l, op, tok, v) ==
  LET n == Len(l)
      bad == [code |-> BadRequest, list |-> l]
      ok(x) == [code |-> OK, list |-> x]
  IN
  IF tok = "" THEN ok(v)
  ELSE IF op = "add"
    THEN IF tok = "-" THEN ok(Append(l, v))
         ELSE IF ParseIndex(tok) > n THEN bad
         ELSE ok(Insert(l, ParseIndex(tok), v))
  ELSE IF tok = "-" THEN bad
  ELSE IF ParseIndex(tok) >= n THEN bad
  ELSE IF op = "replace" THEN ok([l EXCEPT ![ParseIndex(tok) + 1] = v])
  ELSE ok(DeleteAt(l, ParseIndex(tok)))

\* PATCH [{op, path: /list_of_str/<tok>, value}]
PatchElement ==
  \E op \in {"add", "replace", "remove"}, tok \in Tokens \ {""},
     v \in ListValues :
    LET r == list_patch(coll.list, op, tok, v) IN
    /\ Len(r.list) <= MaxList
    /\ coll' = [list |-> r.list,
                last |-> [op |-> op, tok |-> tok, elem |-> v, whole |-> <<>>,
                          code |-> r.code]]
    /\ UNCHANGED <<art, resp, blobvars, occvars, listvars, tagvars,
                   notifyvars, proc>>

\* PATCH [{op, path: /list_of_str, value: [...]}]
PatchWhole ==
  \E op \in {"add", "replace"}, w \in WholeLists :
    LET r == list_patch(coll.list, op, "", w) IN
    /\ coll' = [list |-> r.list,
                last |-> [op |-> op, tok |-> "", elem |-> "", whole |-> w,
                          code |-> r.code]]
    /\ UNCHANGED <<art, resp, blobvars, occvars, listvars, tagvars,
                   notifyvars, proc>>

InitList ==
  /\ art = [i \in ArtIds |-> NoArt]
  /\ resp = NoResp
  /\ blobs = <<>>
  /\ store = <<>>
  /\ up = <<>>
  /\ NoOcc
  /\ NoList
  /\ NoTags
  /\ NoEvents
  /\ wr = <<>>
  /\ proc = <<>>
  /\ coll = [list |-> <<>>,
             last |-> [op |-> "create", tok |-> "", elem |-> "",
                       whole |-> <<>>, code |-> Created]]

NextList == PatchElement \/ PatchWhole

SpecList == InitList /\ [][NextList]_vars

\* ------------------------------------------------- collection validators
\* list_validators and dict_validators of one artifact.  coll.lv is the
\* stored list, coll.dv the stored dict (a key maps to NoEntry when the dict
\* has no such entry), coll.last the last request and its answer.

list_validators_max_size == 3

dict_validators_max_size == 3

AllowedDictKeys == {"abc", "def", "ghi", "jkl"}

ValidatorValues == {"b", "d"}

DictKeys == AllowedDictKeys \cup {"aaa"}

NoEntry == ""

Entries(d) == {k \in DOMAIN d : d[k] # NoEntry}

NoDict == [k \in DictKeys |-> NoEntry]

ListBodies ==
  {<<>>, <<"a", "b", "c">>, <<"c", "b", "a">>, <<"a", "b", "b">>,
   <<"a", "b", "c", "d">>, <<"d", "d">>}

DictBodies ==
  {NoDict,
   [NoDict EXCEPT !["abc"] = "a", !["def"] = "b"],
   [NoDict EXCEPT !["abc"] = "a", !["def"] = "b", !["ghi"] = "c"],
   [NoDict EXCEPT !["abc"] = "a", !["def"] = "b", !["aaa"] = "c"],
   [NoDict EXCEPT !["abc"] = "a", !["def"] = "b", !["ghi"] = "c",
                  !["jkl"] = "d"]}

\* validators.Unique
Unique(l) == \A i, j \in DOMAIN l : l[i] = l[j] => i = j

\* (mutant) the list is checked for its size only.
validate_list_SizeOnly(l) == Len(l) <= list_validators_max_size

validate_list(l) == Len(l) <= list_validators_max_size /\ Unique(l)

validate_dict(d) ==
  /\ Cardinality(Entries(d)) <= dict_validators_max_size
  /\ Entries(d) \subseteq AllowedDictKeys

\* One operation of a patch on the dict d: add sets the entry, replace
\* needs the entry to be there.
dict_patch(d, op, k, v) ==
  IF op = "replace" /\ d[k] = NoEntry THEN [code |-> BadRequest, dict |-> d]
  ELSE [code |-> OK, dict |-> [d EXCEPT ![k] = v]]

Request(kind, op, tok, elem, l, d, code) ==
  [kind |-> kind, op |-> op, tok |-> tok, elem |-> elem, list |-> l,
   dict |-> d, code |-> code]

\* POST with both attributes in the body
CreateValidated ==
  \E l \in ListBodies, d \in DictBodies :
    /\ l = <<"a", "b", "c">> \/ d = [NoDict EXCEPT !["abc"] = "a", !["def"] = "b"]
    /\ IF validate_list(l) /\ validate_dict(d)
         THEN coll' = [lv |-> l, dv |-> d,
                       last |-> Request("create", "", "", "", l, d, Created)]
         ELSE coll' = [coll EXCEPT
                         !.last = Request("create", "", "", "", l, d,
                                          BadRequest)]
    /\ UNCHANGED <<art, resp, blobvars, occvars, listvars, tagvars,
                   notifyvars, proc>>

\* PATCH [{op, path: /list_validators/<tok>, value}]
PatchListElement ==
  \E op \in {"add", "replace"}, tok \in Tokens \ {""}, v \in ValidatorValues :
    LET r == list_patch(coll.lv, op, tok, v)
        ok == r.code = OK /\ validate_list(r.list)
    IN
    /\ coll' = [coll EXCEPT
                  !.lv = IF ok THEN r.list ELSE @,
                  !.last = Request("list", op, tok, v, <<>>, NoDict,
                                   IF ok THEN OK ELSE BadRequest)]
    /\ UNCHANGED <<art, resp, blobvars, occvars, listvars, tagvars,
                   notifyvars, proc>>

\* PATCH [{op: replace, path: /list_validators, value: [...]}]
PatchListValue ==
  \E l \in ListBodies :
    LET ok == validate_list(l) IN
    /\ coll' = [coll EXCEPT
                  !.lv = IF ok THEN l ELSE @,
                  !.last = Request("list", "replace", "", "", l, NoDict,
                                   IF ok THEN OK ELSE BadRequest)]
    /\ UNCHANGED <<art, resp, blobvars, occvars, listvars, tagvars,
                   notifyvars, proc>>

\* PATCH [{op, path: /dict_validators/<key>, value}]
PatchDictElement ==
  \E op \in {"add", "replace"}, k \in DictKeys, v \in {"q"} :
    LET r == dict_patch(coll.dv, op, k, v)
        ok == r.code = OK /\ validate_dict(r.dict)
    IN
    /\ coll' = [coll EXCEPT
                  !.dv = IF ok THEN r.dict ELSE @,
                  !.last = Request("dict", op, k, v, <<>>, NoDict,
                                   IF ok THEN OK ELSE BadRequest)]
    /\ UNCHANGED <<art, resp, blobvars, occvars, listvars, tagvars,
                   notifyvars, proc>>

\* PATCH [{op: replace, path: /dict_validators, value: {...}}]
PatchDictValue ==
  \E d \in DictBodies :
    LET ok == validate_dict(d) IN
    /\ coll' = [coll EXCEPT
                  !.dv = IF ok THEN d ELSE @,
                  !.last = Request("dict", "replace", "", "", <<>>, d,
                                   IF ok THEN OK ELSE BadRequest)]
    /\ UNCHANGED <<art, resp, blobvars, occvars, listvars, tagvars,
                   notifyvars, proc>>

InitValidators ==
  /\ art = [i \in ArtIds |-> NoArt]
  /\ resp = NoResp
  /\ blobs = <<>>
  /\ store = <<>>
  /\ up = <<>>
  /\ NoOcc
  /\ NoList
  /\ NoTags
  /\ NoEvents
  /\ wr = <<>>
  /\ proc = <<>>
  /\ coll = [lv |-> <<"a", "b", "c">>,
             dv |-> [NoDict EXCEPT !["abc"] = "a", !["def"] = "b"],
             last |-> Request("create", "", "", "", <<"a", "b", "c">>,
                              [NoDict EXCEPT !["abc"] = "a", !["def"] = "b"],
                              Created)]

NextValidators ==
  \/ CreateValidated
  \/ PatchListElement
  \/ PatchListValue
  \/ PatchDictElement
  \/ PatchDictValue

SpecValidators == InitValidators /\ [][NextValidators]_vars

\* ------------------------------------------------------------ properties
SameKey(a, b) == a.name = b.name /\ a.version = b.version

StatusEdges ==
  {<<"none", "queued">>, <<"queued", "active">>, <<"active", "deactivated">>,
   <<"deactivated", "active">>, <<"queued", "deleted">>,
   <<"active", "deleted">>, <<"deactivated", "deleted">>}

Rejected(r, arts) == r.art = arts /\ r.code \in {BadRequest, Forbidden, NotFound}

\* C1: every change of an artifact's status follows an edge of the lifecycle
\* (queued->active, active<->deactivated, any live status->deleted); a
\* deactivate request on a queued artifact is rejected (BadRequest for the
\* admin, who alone may deactivate) and leaves it queued; a deleted artifact
\* never changes again; a status patch to 'deleting' is rejected.
C1_StatusEdges ==
  /\ [](\A u \in Users, i \in ArtIds :
          LET a == art[i]
              d == update_status(art, u, i, "deactivated")
              x == update_status(art, u, i, "deleting")
          IN /\ a.status = "queued" =>
                  /\ Rejected(d, art)
                  /\ is_admin(u) => d.code = BadRequest
             /\ Exists(a) =>
                  /\ Rejected(x, art)
                  /\ Visible(u, a) => x.code = BadRequest)
  /\ [][/\ \A i \in ArtIds :
             art[i].status # art'[i].status =>
               <<art[i].status, art'[i].status>> \in StatusEdges
        /\ \A i \in ArtIds : art[i].status = "deleted" => art'[i] = art[i]]_vars

C1_Witness ==
  /\ resp.op = "status_deactivated"
  /\ resp.code = BadRequest
  /\ \E i \in ArtIds : art[i].status = "queued"
  /\ \E j \in ArtIds : art[j].status = "deleted"

\* C2 as claimed: no two live artifacts of one owner share (name, version),
\* whatever their visibility.
C2_Original ==
  \A i, j \in ArtIds :
    (i # j /\ Live(art[i]) /\ Live(art[j]) /\ art[i].owner = art[j].owner)
      => ~SameKey(art[i], art[j])

\* C2 (amended): no two live private artifacts of one owner share
\* (name, version); a create or a patch of name or version that would
\* produce such a pair fails with Conflict and changes nothing.
C2_PrivateUnique ==
  /\ \A i, j \in ArtIds :
       (/\ i # j /\ Live(art[i]) /\ Live(art[j])
        /\ art[i].owner = art[j].owner
        /\ art[i].visibility = "private" /\ art[j].visibility = "private")
         => ~SameKey(art[i], art[j])
  /\ \A u \in Users \ {"anonymous"}, n \in Names, v \in Versions :
       (\E j \in ArtIds :
          /\ Live(art[j]) /\ art[j].visibility = "private"
          /\ art[j].owner = tenant_id(u)
          /\ art[j].name = n /\ art[j].version = v)
         => create(art, u, n, v, Null) = Result(Conflict, art)
  /\ \A u \in Users, i \in ArtIds, n \in Names, v \in Versions :
       (/\ art[i].status = "queued" /\ MayModify(u, art[i])
        /\ \E j \in ArtIds :
             /\ j # i /\ Live(art[j]) /\ art[j].visibility = "private"
             /\ art[j].owner = art[i].owner
             /\ art[j].name = n /\ art[j].version = v)
         => /\ (art[i].name # n /\ art[i].version = v)
                 => update(art, u, i, "name", n) = Result(Conflict, art)
            /\ (art[i].version # v /\ art[i].name = n)
                 => update(art, u, i, "version", v) = Result(Conflict, art)

C2_Witness ==
  /\ resp.op = "update"
  /\ resp.code = Conflict
  /\ \E i, j \in ArtIds :
       /\ i # j /\ Live(art[i]) /\ Live(art[j])
       /\ art[i].owner = art[j].owner
       /\ art[i].name = art[j].name

\* C3: no two live public artifacts share (name, version), whoever owns
\* them; a publish request that would create such a pair changes nothing
\* and, from a caller allowed to publish an active artifact, fails with
\* Conflict.
C3_PublicUnique ==
  /\ \A i, j \in ArtIds :
       (/\ i # j /\ Live(art[i]) /\ Live(art[j])
        /\ art[i].visibility = "public" /\ art[j].visibility = "public")
         => ~SameKey(art[i], art[j])
  /\ \A u \in Users, i \in ArtIds :
       (/\ Live(art[i]) /\ art[i].visibility = "private"
        /\ \E j \in ArtIds :
             /\ j # i /\ Live(art[j]) /\ art[j].visibility = "public"
             /\ SameKey(art[i], art[j]))
         => LET r == publish(art, u, i, "public")
            IN /\ r.art = art
               /\ r.code # OK
               /\ (is_admin(u) /\ art[i].status = "active")
                    => r.code = Conflict

C3_Witness ==
  /\ resp.op = "visibility_public"
  /\ resp.code = Conflict
  /\ \E i, j \in ArtIds :
       /\ art[i].visibility = "public" /\ art[j].visibility = "private"
       /\ art[j].status = "active" /\ art[i].owner # art[j].owner
       /\ SameKey(art[i], art[j])

\* C4: an artifact goes from queued to active only with every
\* required_on_activate attribute set (and every required blob slot active:
\* sample_artifact declares none); an activate request on a queued artifact
\* lacking one is rejected with BadRequest and leaves it queued; with the
\* attribute set the same request succeeds.
C4_RequiredOnActivate ==
  /\ [](\A u \in Users, i \in ArtIds :
          (art[i].status = "queued" /\ MayActivate(u, art[i]))
            => LET r == update_status(art, u, i, "active")
               IN IF \E f \in RequiredOnActivate : art[i][f] = Null
                    THEN r = Result(BadRequest, art)
                    ELSE /\ r.code = OK
                         /\ r.art = [art EXCEPT ![i].status = "active"])
  /\ [][\A i \in ArtIds :
          (art[i].status = "queued" /\ art'[i].status = "active")
            => /\ \A f \in RequiredOnActivate : art[i][f] # Null
               /\ RequiredBlobsOnActivate = {}]_vars

C4_Witness ==
  /\ resp.op = "status_active"
  /\ resp.code = BadRequest
  /\ \E i \in ArtIds :
       art[i].status = "queued" /\ art[i].string_required = Null
  /\ \E j \in ArtIds : art[j].status = "active"

\* C5 as claimed: a publish request on a queued or deactivated artifact is
\* answered BadRequest whoever the caller is.
C5_Original ==
  \A u \in Users, i \in ArtIds :
    art[i].status \in {"queued", "deactivated"}
      => publish(art, u, i, "public").code = BadRequest

\* C5 (amended): the only visibility change of a live artifact is
\* private->public, and it happens only while the artifact is active; a
\* publish request on a queued or deactivated artifact is rejected for every
\* caller and changes nothing, with BadRequest when the caller is an admin.
C5_VisibilityMonotone ==
  /\ [](\A u \in Users, i \in ArtIds :
          art[i].status \in {"queued", "deactivated"}
            => LET r == publish(art, u, i, "public")
               IN /\ Rejected(r, art)
                  /\ is_admin(u) => r.code = BadRequest)
  /\ [][\A i \in ArtIds :
          (Live(art[i]) /\ Live(art'[i])
             /\ art[i].visibility # art'[i].visibility)
            => /\ art[i].visibility = "private"
               /\ art'[i].visibility = "public"
               /\ art[i].status = "active"
               /\ art'[i].status = "active"]_vars

C5_Witness ==
  /\ resp.op = "visibility_public"
  /\ resp.code = BadRequest
  /\ \E i \in ArtIds :
       art[i].status = "deactivated" /\ art[i].visibility = "private"
  /\ \E j \in ArtIds : art[j].visibility = "public"

\* ------------------------------------------------------- blob properties
OnSlot(w, id, p) == up[w].id = id /\ up[w].path = p

\* The answered uploads that were concurrent on one slot that held no blob.
Concurrent(id, p) ==
  {w \in Uploaders : /\ up[w].pc = "done"
                     /\ OnSlot(w, id, p)
                     /\ up[w].conc
                     /\ up[w].empty}

Settled(id, p) ==
  /\ Live(art[id])
  /\ Concurrent(id, p) # {}
  /\ \A w \in Uploaders : ~(InFlight(up[w]) /\ OnSlot(w, id, p))

Succeeded(S) == {w \in S : up[w].code = OK}

C8_DownloadIffActive ==
  \A u \in Users, id \in ArtIds, p \in BlobPaths :
    LET a == art[id]
        s == Slot(blobs, id, p)
        r == download(art, blobs, store, u, id, p)
    IN (Visible(u, a) /\ MayDownload(u, a)) =>
         /\ r.code = OK <=> s.status = "active"
         /\ s.status \in {"absent", "saving"} => r.code = BadRequest
         /\ \A w \in Uploaders :
              (up[w].pc = "done" /\ OnSlot(w, id, p) /\ up[w].code = OK)
                => r.code = OK /\ r.body = up[w].data

C8_Witness ==
  /\ resp.op = "download"
  /\ resp.code = OK
  /\ resp.body = Bytes(MaxChunks)
  /\ \E id \in ArtIds, p \in BlobPaths : Slot(blobs, id, p).status = "saving"

\* C9: no partial blob is finalized. An upload holding the lease that ends
\* with anything but OK (size limit, cancellation, I/O error) leaves the
\* slot absent with no bytes, free for a new upload; an upload ends OK only
\* when all its bytes are stored; a stored active blob is complete and
\* within max_blob_size.
C9_NoPartialBlob ==
  /\ [](\A id \in ArtIds, p \in BlobPaths :
          LET s == Slot(blobs, id, p) IN
          /\ s.status = "absent" => Stored(store, id, p) = <<>>
          /\ (s.status = "active" /\ ~s.external) =>
               /\ Stored(store, id, p) \in Data
               /\ s.size = Some(SizeOf(Stored(store, id, p)))
               /\ s.checksum = Some(md5(Stored(store, id, p)))
               /\ p = "small_blob" =>
                    SizeOf(Stored(store, id, p)) <= small_blob_max_blob_size)
  /\ [][\A w \in Uploaders :
          (HoldsLease(w) /\ up'[w].pc = "done") =>
            LET id == up[w].id
                p == up[w].path
            IN IF up'[w].code = OK
                 THEN /\ up[w].sent = Len(up[w].data)
                      /\ Stored(store', id, p) = up[w].data
                 ELSE /\ up'[w].code \in {PayloadTooLarge, 500, 0}
                      /\ Slot(blobs', id, p) = Absent
                      /\ Stored(store', id, p) = <<>>
                      /\ upload_check(art', blobs', "admin", id, p) = 0]_vars

C9_Witness ==
  \E id \in ArtIds, w, x \in Uploaders :
    /\ up[w].pc = "done" /\ OnSlot(w, id, "small_blob")
    /\ up[w].code = PayloadTooLarge
    /\ up[x].pc = "done" /\ OnSlot(x, id, "small_blob")
    /\ up[x].code = OK
    /\ Slot(blobs, id, "small_blob").status = "active"

\* ------------------------------------------------ version token properties
\* The value a field holds after the commits in l, starting from v.
RECURSIVE LastWrite(_, _, _)
LastWrite(l, f, v) ==
  IF l = <<>> THEN v
  ELSE LastWrite(Tail(l), f, IF Head(l).field = f THEN Head(l).value ELSE v)

\* C10: updates of one artifact are linearizable through its version token.
\* The token goes up by one with every committed update and never changes
\* otherwise; the k-th commit read token k-1, so no two commits read the same
\* token and of all writers that read one token exactly one commits; a
\* writer answered OK is that commit, a writer answered Conflict read a token
\* that another writer's commit has replaced; every field holds the value of
\* the last commit that wrote it, so no committed update is overwritten by
\* a writer that read an older token.
C10_TokenLinearizes ==
  /\ [](\A id \in ArtIds :
          /\ Len(log[id]) = token[id]
          /\ \A k \in 1..Len(log[id]) : log[id][k].read = k - 1
          /\ Live(art[id]) =>
               \A f \in {"name", "string_required"} :
                 art[id][f] = LastWrite(log[id], f,
                                IF f = "name" THEN "test_af" ELSE "string")
          /\ \A w \in Writers :
               (wr[w].pc = "done" /\ wr[w].id = id) =>
                 /\ wr[w].code \in {OK, Conflict}
                 /\ wr[w].seen < token[id]
                 /\ wr[w].code = OK <=> log[id][wr[w].seen + 1].writer = w
          /\ \A w, x \in Writers :
               (/\ w # x
                /\ wr[w].pc = "done" /\ wr[w].id = id
                /\ wr[x].pc = "done" /\ wr[x].id = id
                /\ wr[w].seen = wr[x].seen
                /\ log[id][wr[w].seen + 1].writer \in {w, x})
                 => (wr[w].code = OK) # (wr[x].code = OK))
  /\ [][\A id \in ArtIds :
          /\ token'[id] \in {token[id], token[id] + 1}
          /\ art'[id] # art[id] => token'[id] = token[id] + 1
          /\ \A w \in Writers :
               (wr[w].pc = "loaded" /\ wr[w].id = id /\ wr'[w].pc = "done") =>
                 (wr'[w].code = OK <=> token'[id] = token[id] + 1)]_vars

C10_Witness ==
  \E id \in ArtIds, w, x \in Writers :
    /\ wr[w].pc = "done" /\ wr[w].code = OK
    /\ wr[x].pc = "done" /\ wr[x].code = Conflict
    /\ wr[w].id = id /\ wr[x].id = id
    /\ wr[w].seen = wr[x].seen
    /\ token[id] = MaxToken

\* A request that was answered with anything but success.
Failed(r) == r.op # "none" /\ r.code \notin {OK, Created, NoContent}

C13_Original ==
  [][\A i \in ArtIds :
       (Live(art[i]) /\ Live(art'[i])) => art'[i].name = art[i].name]_vars

\* C13 (amended): the name changes only while the artifact is queued.  Once
\* the artifact has left queued its name stays the same until deletion and
\* a patch replacing /name by another value is answered 403; on a queued
\* artifact the same patch by a caller allowed to modify it is answered 200
\* and stored, or 409 when the owner has another private artifact of the
\* new name and the same version.
C13_NameFrozenAfterQueued ==
  [][\A i \in ArtIds :
       /\ (art[i].status \in {"active", "deactivated"} /\ Live(art'[i]))
            => art'[i].name = art[i].name
       /\ (Live(art[i]) /\ Live(art'[i]) /\ art'[i].name # art[i].name)
            => /\ art[i].status = "queued"
               /\ resp'.op = "patch"
               /\ resp'.code = OK
       /\ ( /\ resp = NoResp
            /\ resp'.op = "patch"
            /\ i \in Target
            /\ Visible(resp'.by, art[i])
            /\ Len(resp'.ops) = 1
            /\ resp'.ops[1][1] = "name"
            /\ resp'.ops[1][2] # art[i].name )
            => LET n == resp'.ops[1][2] IN
               IF art[i].status # "queued" \/ ~MayModify(resp'.by, art[i])
                 THEN resp'.code = Forbidden /\ art' = art
               ELSE IF \E j \in ArtIds \ {i} :
                         /\ Live(art[j])
                         /\ art[j].visibility = "private"
                         /\ art[j].owner = art[i].owner
                         /\ art[j].name = n
                         /\ art[j].version = art[i].version
                 THEN resp'.code = Conflict /\ art' = art
               ELSE resp'.code = OK /\ art'[i].name = n
    ]_vars

\* The artifact created as test_af was renamed while queued, was activated,
\* and the patch giving it its first name back was answered 403.
C13_Witness ==
  /\ resp.op = "patch"
  /\ resp.code = Forbidden
  /\ resp.by = "user1"
  /\ resp.ops = <<(<<"name", "test_af">>)>>
  /\ art[1].name = "test_name_af"
  /\ art[1].status = "active"

\* A patch request on artifact i that names a system attribute is answered.
SetsSystemAttr(i) ==
  /\ resp = NoResp
  /\ resp'.op = "patch"
  /\ i \in Target
  /\ Live(art[i])
  /\ \E k \in DOMAIN resp'.ops :
       resp'.ops[k][1] \in {"system_attribute", "owner"}

\* C14 as stated: a patch that sets a system attribute is answered 403 for
\* every caller.
C14_Original ==
  [][\A i \in ArtIds : SetsSystemAttr(i) => resp'.code = Forbidden]_vars

\* C14 (amended): system_attribute and owner of an artifact never change.
\* A patch that names one of them is answered 403 when the caller can see
\* the artifact, whatever its status, and 404 when the caller cannot; a
\* create body that names system_attribute is answered 403; none of them
\* changes anything.
C14_SystemAttrsFrozen ==
  /\ [](\A i \in ArtIds :
          Live(art[i]) => /\ art[i].system_attribute = "default"
                          /\ art[i].owner = "tenant1")
  /\ [][/\ \A i \in ArtIds :
             SetsSystemAttr(i)
               => /\ art' = art
                  /\ resp'.code = IF Visible(resp'.by, art[i])
                                    THEN Forbidden ELSE NotFound
        /\ (resp = NoResp /\ resp'.op = "create")
             => resp'.code = Forbidden /\ art' = art
       ]_vars

\* The owner's patch of /owner on the active artifact was answered 403.
C14_Witness ==
  /\ resp.op = "patch"
  /\ resp.code = Forbidden
  /\ resp.by = "user1"
  /\ resp.ops = <<(<<"owner", "any_value">>)>>
  /\ art[1].status = "active"
  /\ art[1].owner = "tenant1"

\* The operations of a patch give artifact a another value for attribute f.
Alters(ops, a, f) ==
  \E k \in DOMAIN ops : ops[k][1] = f /\ ops[k][2] # a[f]

\* C15: a status change or a visibility change is never committed together
\* with the change of another attribute; a patch that changes status or
\* visibility and gives another attribute a new value is answered 400 and
\* changes nothing.
C15_StatusChangeAlone ==
  [][\A i \in ArtIds :
       /\ ( /\ Live(art[i]) /\ Live(art'[i])
            /\ \/ art'[i].status # art[i].status
               \/ art'[i].visibility # art[i].visibility )
            => \A f \in {"name", "version", "string_required",
                         "string_mutable", "owner", "system_attribute"} :
                 art'[i][f] = art[i][f]
       /\ ( /\ resp = NoResp
            /\ resp'.op = "patch"
            /\ i \in Target
            /\ Visible(resp'.by, art[i])
            /\ \A k \in DOMAIN resp'.ops : resp'.ops[k][1] \notin SystemAttrs
            /\ \/ Alters(resp'.ops, art[i], "status")
               \/ Alters(resp'.ops, art[i], "visibility")
            /\ \E f \in {"name", "version", "string_required",
                         "string_mutable"} : Alters(resp'.ops, art[i], f) )
            => resp'.code = BadRequest /\ art' = art
    ]_vars

\* The owner's patch activating the artifact and renaming it was answered
\* 400 although the artifact was ready to be activated; it is still queued
\* under its old name.
C15_Witness ==
  /\ resp.op = "patch"
  /\ resp.code = BadRequest
  /\ resp.by = "user1"
  /\ resp.ops = <<(<<"status", "active">>), (<<"name", "test_name_af">>)>>
  /\ art[1].status = "queued"
  /\ art[1].string_required = "string"
  /\ art[1].name = "test_af"

\* C16: a patch setting status to the status the artifact has, active or
\* deactivated, sent by the owner or by an admin, is answered 200 and
\* changes no attribute, so it can be repeated any number of times.
C16_ReapplyStatusNoOp ==
  [][\A i \in Target :
       ( /\ resp = NoResp
         /\ resp'.op = "patch"
         /\ art[i].status \in {"active", "deactivated"}
         /\ resp'.ops = <<(<<"status", art[i].status>>)>>
         /\ is_admin(resp'.by) \/ art[i].owner = tenant_id(resp'.by) )
         => resp'.code = OK /\ art' = art
    ]_vars

\* The owner's patch setting deactivated on the deactivated artifact was
\* answered 200.
C16_Witness ==
  /\ resp.op = "patch"
  /\ resp.code = OK
  /\ resp.by = "user1"
  /\ resp.ops = <<(<<"status", "deactivated">>)>>
  /\ art[1].status = "deactivated"

\* C17: every step that takes an artifact into deactivated and every step
\* that makes it public answers a patch of an admin; the deactivate or
\* publish patch of a caller who is not an admin is denied, 403 when the
\* caller can see the artifact and 404 when not, and changes nothing.
C17_AdminOnlyDeactivatePublish ==
  [][\A i \in ArtIds :
       /\ ( \/ art[i].status # "deactivated" /\ art'[i].status = "deactivated"
            \/ art[i].visibility # "public" /\ art'[i].visibility = "public" )
            => resp'.op = "patch" /\ role(resp'.by) = "admin"
       /\ ( /\ resp = NoResp
            /\ resp'.op = "patch"
            /\ i \in Target
            /\ Live(art[i])
            /\ role(resp'.by) # "admin"
            /\ \/ /\ resp'.ops = <<(<<"status", "deactivated">>)>>
                  /\ art[i].status # "deactivated"
               \/ /\ resp'.ops = <<(<<"visibility", "public">>)>>
                  /\ art[i].visibility # "public" )
            => /\ art' = art
               /\ resp'.code = IF Visible(resp'.by, art[i])
                                 THEN Forbidden ELSE NotFound
    ]_vars

\* The owner's deactivate patch on the active artifact was answered 403 and
\* the artifact is still active.
C17_Witness ==
  /\ resp.op = "patch"
  /\ resp.code = Forbidden
  /\ resp.by = "user1"
  /\ resp.ops = <<(<<"status", "deactivated">>)>>
  /\ art[1].status = "active"

\* C18 as stated: on an active private artifact only an admin's patch
\* changes a mutable attribute.
C18_Original ==
  [][\A i \in ArtIds :
       ( /\ art[i].status = "active"
         /\ art[i].visibility = "private"
         /\ Live(art'[i])
         /\ art'[i].string_mutable # art[i].string_mutable )
         => role(resp'.by) = "admin"
    ]_vars

\* C18 (amended): on an active private artifact a mutable attribute is
\* changed by patches of the owner and of admins only; their patch of
\* string_mutable is answered 200 and stored, the patch of another tenant
\* or of an anonymous caller is answered 404 and changes nothing.
C18_ModifyActiveOwnerOrAdmin ==
  [][\A i \in ArtIds :
       /\ ( /\ art[i].status = "active"
            /\ art[i].visibility = "private"
            /\ Live(art'[i])
            /\ art'[i].string_mutable # art[i].string_mutable )
            => /\ resp'.op = "patch"
               /\ \/ role(resp'.by) = "admin"
                  \/ tenant_id(resp'.by) = art[i].owner
       /\ ( /\ resp = NoResp
            /\ resp'.op = "patch"
            /\ i \in Target
            /\ art[i].status = "active"
            /\ art[i].visibility = "private"
            /\ Len(resp'.ops) = 1
            /\ resp'.ops[1][1] = "string_mutable"
            /\ resp'.ops[1][2] # art[i].string_mutable )
            => IF \/ role(resp'.by) = "admin"
                  \/ tenant_id(resp'.by) = art[i].owner
                 THEN /\ resp'.code = OK
                      /\ art'[i].string_mutable = resp'.ops[1][2]
                 ELSE resp'.code = NotFound /\ art' = art
    ]_vars

\* The owner's patch of string_mutable on the active private artifact was
\* answered 200 and stored.
C18_Witness ==
  /\ resp.op = "patch"
  /\ resp.code = OK
  /\ resp.by = "user1"
  /\ resp.ops = <<(<<"string_mutable", "string">>)>>
  /\ art[1].status = "active"
  /\ art[1].visibility = "private"
  /\ art[1].string_mutable = "string"

Gone(i, u) ==
  /\ get(art, u, i).code = NotFound
  /\ i \notin list(art, u)
  /\ \A o \in PatchOps : patch(art, u, i, <<o>>).code = NotFound
  /\ update_status(art, u, i, "active").code = NotFound
  /\ delete(art, u, i).code = NotFound
  /\ \A p \in BlobPaths :
       download(art, blobs, store, u, i, p).code = NotFound

Returned(u, i) == get(art, u, i).code = OK /\ i \in list(art, u)

\* Artifact i is refused to caller u by get and left out by list.
Withheld(u, i) == get(art, u, i).code = NotFound /\ i \notin list(art, u)

C23_DeactivatedDownloadAdminOnly ==
  \A id \in ArtIds, p \in BlobPaths :
    LET a == art[id]
        s == Slot(blobs, id, p)
        content == IF s.external THEN UrlContent ELSE Stored(store, id, p)
    IN (Live(a) /\ s.status = "active") =>
         \A u \in Users :
           LET r == download(art, blobs, store, u, id, p) IN
           /\ a.status = "deactivated"
                => IF role(u) = "admin"
                     THEN /\ r.code = OK
                          /\ r.body = content
                          /\ s.size = Some(SizeOf(r.body))
                          /\ s.checksum = Some(md5(r.body))
                   ELSE /\ r.code \in {Forbidden, NotFound}
                        /\ tenant_id(u) = a.owner => r.code = Forbidden
           /\ (a.status = "active" /\ tenant_id(u) = a.owner)
                => r.code = OK /\ r.body = content

\* A download of the uploaded blob was answered 403 while the artifact was
\* deactivated: the request of the owner, as another tenant is answered 404.
C23_Witness ==
  /\ resp.op = "download"
  /\ resp.code = Forbidden
  /\ art[1].status = "deactivated"
  /\ Slot(blobs, 1, "blob").status = "active"
  /\ download(art, blobs, store, "user1", 1, "blob").code = Forbidden
  /\ download(art, blobs, store, "admin", 1, "blob").code = OK

\* The answers caller u gets to a get, a patch of one operation, a delete,
\* an upload and a download on artifact id of the records arts.
Answers(arts, u, id) ==
  [get |-> get(arts, u, id).code,
   patch |-> [o \in PatchOps |-> patch(arts, u, id, <<o>>).code],
   delete |-> delete(arts, u, id).code,
   upload |-> [p \in BlobPaths |-> upload_check(arts, blobs, u, id, p)],
   download |-> [p \in BlobPaths |->
                   download(arts, blobs, store, u, id, p).code]]

\* C24: a private artifact of another tenant does not show: for a caller
\* who is not an admin and not of the owner's tenant, get, patch, delete,
\* blob upload and blob download all answer 404, as they do for an id under
\* which there is no artifact, and the patch and the delete change nothing.
C24_ForeignPrivateNotFound ==
  \A id \in ArtIds, u \in Users :
    ( /\ Live(art[id])
      /\ art[id].visibility = "private"
      /\ role(u) # "admin"
      /\ tenant_id(u) # art[id].owner )
      => LET r == Answers(art, u, id) IN
         /\ r.get = NotFound
         /\ \A o \in PatchOps : r.patch[o] = NotFound
         /\ r.delete = NotFound
         /\ \A p \in BlobPaths : r.upload[p] = NotFound
         /\ \A p \in BlobPaths : r.download[p] = NotFound
         /\ r = Answers([art EXCEPT ![id] = NoArt], u, id)
         /\ \A o \in PatchOps : patch(art, u, id, <<o>>).art = art
         /\ delete(art, u, id).art = art

\* An upload to the private artifact was answered 404 while the artifact
\* exists and another upload to it went through.
C24_Witness ==
  \E w, x \in Uploaders :
    /\ up[w].pc = "done"
    /\ up[w].code = NotFound
    /\ Live(art[up[w].id])
    /\ art[up[w].id].visibility = "private"
    /\ up[x].pc = "done"
    /\ up[x].code = OK
    /\ up[x].id = up[w].id

\* C25: the pages of a listing obtained by following next, put one after
\* the other, are strictly ordered under the sort with the id tiebreaker,
\* hold no more rows than the limit each, and once there is no next page
\* hold every row matching the filter exactly once; the rows of a page
\* after a marker all come strictly after the marker row.
C25_PagingMonotoneComplete ==
  /\ [](pager # <<>> /\ pager.code = OK
          => LET got == pager.got
                 srt == pager.query.sort
             IN /\ \A i, j \in DOMAIN got :
                     i < j => /\ Before(rows[got[i]], rows[got[j]], srt)
                              /\ ~Before(rows[got[j]], rows[got[i]], srt)
                              /\ got[i] # got[j]
                /\ \A i \in DOMAIN got :
                     RowMatches(rows[got[i]], pager.query.filter)
                /\ Len(got) <= pager.pages * pager.query.limit
                /\ pager.pc = "done"
                     => {got[i] : i \in DOMAIN got}
                          = {i \in RowIds :
                               RowMatches(rows[i], pager.query.filter)})
  /\ [][pager.pc = "more"
          => LET m == rows[pager.marker]
                 new == {pager'.got[i] :
                           i \in DOMAIN pager'.got \ DOMAIN pager.got}
             IN /\ pager.marker = pager.got[Len(pager.got)]
                /\ new # {}
                /\ Cardinality(new) <= pager.query.limit
                /\ \A i \in new : Before(m, rows[i], pager.query.sort)
       ]_vars

\* A listing sorted by float1, on which all rows tie, was read in pages of
\* one row and returned all rows, two of which also tie on int1.
C25_Witness ==
  /\ pager # <<>>
  /\ pager.pc = "done"
  /\ pager.code = OK
  /\ pager.query.sort = <<(<<"float1", "asc">>)>>
  /\ pager.query.limit = 1
  /\ pager.query.filter = <<>>
  /\ pager.pages = MaxRows
  /\ Len(pager.got) = MaxRows
  /\ rows[1].int1 = rows[2].int1

\* The number of sort keys of the listing asked for that are not name.
AskedCustom ==
  Cardinality({i \in DOMAIN pager.query.sort :
                 pager.query.sort[i][1] \in {"int1", "float1"}})

\* C27 as stated: a sort with up to two custom keys is accepted.
C27_Original ==
  (pager # NoPager /\ AskedCustom <= 2) => pager.code = OK

\* C27 (amended): a sort request carries at most one custom sort key: with
\* one custom key or none, with or without name, the listing is answered
\* 200; with two custom keys or more it is answered 400 and returns no row.
C27_OneCustomSortKey ==
  pager # NoPager
    => /\ pager.code = IF AskedCustom <= 1 THEN OK ELSE BadRequest
       /\ pager.code = BadRequest => pager.got = <<>> /\ pager.pc = "done"

\* The listing sorted by float1, int1 and name was answered 400.
C27_Witness ==
  /\ pager # NoPager
  /\ pager.code = BadRequest
  /\ pager.query.limit = 1
  /\ pager.query.sort = <<(<<"float1", "asc">>), (<<"int1", "asc">>),
                          (<<"name", "desc">>)>>

\* Row r satisfies filter f.
Satisfies(r, f) ==
  CASE f[1] = "int1" ->
         (CASE f[2] = "eq" -> r.int1 = f[3]
            [] f[2] = "neq" -> r.int1 # f[3]
            [] f[2] = "gt" -> r.int1 > f[3]
            [] f[2] = "lt" -> r.int1 < f[3])
    [] f[1] = "tags" -> f[3] \subseteq r.tags
    [] f[1] = "tags-any" -> f[3] \cap r.tags # {}

\* C26: a listing returns exactly the rows that satisfy every filter of the
\* query: filters of the same key are all applied, tags=a,b asks for all
\* the tags listed and tags-any=a,b for at least one, tags= for none.
C26_ListingMatchesFilters ==
  (pager # NoPager)
    => /\ pager.code = OK
       /\ pager.result
            = {i \in RowIds : \A f \in pager.filters : Satisfies(rows[i], f)}

\* The listing with tags=tag4,tag5 and int1=gt:0 returned the row holding
\* both tags and not the row holding tag5 only, which tags-any would return.
C26_Witness ==
  /\ pager # NoPager
  /\ pager.filters = {<<"tags", "all", {"tag4", "tag5"}>>,
                      <<"int1", "gt", 0>>}
  /\ pager.result = {1}
  /\ rows[2].tags = {"tag5"}
  /\ rows[3].tags = {"tag4"}

\* ---------------------------------------------------------- tag properties
\* The response answers a patch that carries an operation on /tags.
TagPatched(r) ==
  /\ r.op = "patch"
  /\ \E k \in DOMAIN r.ops : r.ops[k][1] = "tags"

\* C28: a patch with an operation on /tags is answered 400 and changes
\* neither the artifact nor its tags, whatever the status of the artifact
\* and whoever the caller; the tag set changes only with a successful PUT
\* on the tag endpoint, which stores the body as the whole set, or a
\* successful DELETE, which leaves the empty set.
C28_TagsOnlyThroughTagEndpoint ==
  [][/\ TagPatched(resp')
        => /\ resp'.code = BadRequest
           /\ art' = art
           /\ tags' = tags
     /\ tags' # tags
        => /\ resp'.op \in {"put_tags", "delete_tags"}
           /\ \A i \in ArtIds :
                tags'[i] # tags[i]
                  => /\ i \in Target
                     /\ IF resp'.op = "put_tags"
                          THEN resp'.code = OK /\ tags'[i] = resp'.body
                          ELSE resp'.code = NoContent /\ tags'[i] = {}]_vars

\* The admin's patch on /tags of the published artifact is refused, after
\* the tag set had been replaced through the tag endpoint.
C28_Witness ==
  /\ TagPatched(resp)
  /\ resp.by = "admin"
  /\ resp.code = BadRequest
  /\ art[1].status = "active"
  /\ art[1].visibility = "public"
  /\ tags[1] = {"new_tag1", "new_tag2"}

\* The sets a reader may be shown: the set before any replacement and the
\* sets asked for by the replacements begun.
WholeSets ==
  {InitialTags}
    \cup {tx[w].want : w \in {v \in TagWriters : tx[v].pc # "idle"}}

\* C29: next to replacements in flight a reader of the tags is shown the
\* whole old set or the whole set of one replacement, never a part or a
\* mixture; the stored set changes only when a replacement commits, and
\* then to exactly the set that replacement asked for, so after two
\* replacements it is the set of one of the two.
C29_TagReplacementAtomic ==
  /\ [](/\ resp.op = "get_tags" => resp.body \in WholeSets
        /\ tags[1] \in WholeSets
        /\ (\E w \in TagWriters : tx[w].pc = "done")
             => \E w \in TagWriters : tx[w].pc = "done" /\ tags[1] = tx[w].want)
  /\ [][tags' # tags
          => \E w \in TagWriters :
               /\ tx[w].pc = "ready"
               /\ tx'[w].pc = "done"
               /\ tags' = [tags EXCEPT ![1] = tx[w].want]]_vars

\* Two replacements asking for different sets have both committed, the
\* second one over the first, and a reader was shown the set of the first
\* between the two commits.
C29_Witness ==
  /\ tx[1].pc = "done"
  /\ tx[2].pc = "done"
  /\ tx[1].want = {"new_tag1", "new_tag2"}
  /\ tx[2].want = {"tag1", "new_tag1"}
  /\ tags[1] = tx[2].want
  /\ resp.op = "get_tags"
  /\ resp.body = tx[1].want

KnownClass(c) ==
  CHOOSE k \in DOMAIN KNOWN_EXCEPTIONS : IsInstance(c, KNOWN_EXCEPTIONS[k])

\* C31: a clean shutdown exits with 0, and every exception that main()
\* catches, instances of subclasses included, makes fail() end the process
\* through sys.exit with the code of its known class: 1 RuntimeError,
\* 2 WorkerCreationFailure, 3 BadStoreConfiguration.
C31_Original ==
  proc.pc = "exit"
    => /\ proc.exc = Null => proc.code = 0
       /\ (proc.exc # Null /\ Caught(proc.exc))
            => /\ proc.via = "sys.exit"
               /\ proc.stderr = "ERROR"
               /\ proc.code = KnownClass(proc.exc)

\* --------------------------------------------------------- create properties
\* The creator has read back the artifact just created.
ReadBack ==
  /\ resp.op = "get"
  /\ resp.by = resp.creator

\* What the record read back holds whatever the body: the attributes the
\* body names as sent, and the server's queued, private, owner, version
\* and system_attribute.
RoundTrip ==
  /\ resp.code = OK
  /\ \A f \in DOMAIN resp.sent : resp.body[f] = resp.sent[f]
  /\ resp.body.status = "queued"
  /\ resp.body.visibility = "private"
  /\ resp.body.owner = tenant_id(resp.creator)
  /\ "version" \notin DOMAIN resp.sent => resp.body.version = "0.0.0"
  /\ resp.body.system_attribute = "default"
  /\ "list_of_str" \notin DOMAIN resp.sent => resp.body.list_of_str = "[]"
  /\ "dict_of_str" \notin DOMAIN resp.sent => resp.body.dict_of_str = "{}"

\* C32 as stated: every list and every map the body leaves out is read
\* back empty.
C32_Original ==
  ReadBack
    => /\ RoundTrip
       /\ "dict_validators" \notin DOMAIN resp.sent
            => resp.body.dict_validators = "{}"

\* C32 (amended): a create followed by a get by the creator returns the
\* attributes of the body as sent and the defaults for the rest: status
\* queued, visibility private, the caller's tenant as owner, version 0.0.0,
\* system_attribute "default", the empty list and map for list_of_str and
\* dict_of_str, and null for dict_validators, whose declared default is
\* None.
C32_CreateRoundTrip ==
  ReadBack
    => /\ RoundTrip
       /\ "dict_validators" \notin DOMAIN resp.sent
            => resp.body.dict_validators = Null

\* user1 created an artifact naming only name and string_required and read
\* it back.
C32_Witness ==
  /\ ReadBack
  /\ resp.creator = "user1"
  /\ DOMAIN resp.sent = {"name", "string_required"}
  /\ resp.body.version = "0.0.0"
  /\ resp.body.dict_validators = Null

\* The create request is one the claim is about.
Refusable(r) ==
  /\ r.op = "create"
  /\ \/ role(r.by) = "none"
     \/ "visibility" \in DOMAIN r.sent
     \/ "system_attribute" \in DOMAIN r.sent

\* C33 as stated: every such request is answered 403.
C33_Original ==
  Refusable(resp) => resp.code = Forbidden /\ FreeIds(art) = ArtIds

\* C33 (amended): a create request from an anonymous caller is answered
\* 403; from a member, one that sets a system attribute and not the
\* visibility is answered 403 and one that sets the visibility and no
\* system attribute is answered 400; one that sets both is answered 400 or
\* 403; none of them creates an artifact.
C33_CreateRefusals ==
  Refusable(resp)
    => /\ FreeIds(art) = ArtIds
       /\ resp.code \in {BadRequest, Forbidden}
       /\ role(resp.by) = "none" => resp.code = Forbidden
       /\ (/\ role(resp.by) # "none"
           /\ "visibility" \notin DOMAIN resp.sent)
            => resp.code = Forbidden
       /\ (/\ role(resp.by) # "none"
           /\ "system_attribute" \notin DOMAIN resp.sent)
            => resp.code = BadRequest

\* user1's create with a visibility was answered 400.
C33_Witness ==
  /\ Refusable(resp)
  /\ resp.by = "user1"
  /\ DOMAIN resp.sent = {"name", "version", "visibility"}
  /\ resp.code = BadRequest
  /\ FreeIds(art) = ArtIds

\* ---------------------------------------------------- key release properties
Members == {u \in Users : role(u) # "none"}

\* Artifact j of arts holds the key (n, v) privately for owner o.
HoldsKey(arts, j, o, n, v) ==
  /\ Live(arts[j])
  /\ arts[j].visibility = "private"
  /\ arts[j].owner = o
  /\ arts[j].name = n
  /\ arts[j].version = v

\* Some artifact other than i holds the key (n, v) privately for owner o.
KeyHeld(arts, i, o, n, v) ==
  \E j \in ArtIds \ {i} : HoldsKey(arts, j, o, n, v)

\* C34: a create of (name, version) by a member is answered 409 exactly
\* while a private artifact of the member's tenant holds that key, and so
\* is the patch giving the key to a queued artifact of the tenant; the
\* holder is the only one, so once it is deleted or changes its name or
\* version nothing holds the key and the same create or patch is accepted;
\* private artifacts of other tenants with that key do not count.
C34_KeyReleased ==
  /\ [](\A u \in Members, n \in Names, v \in Versions :
          /\ KeyHeld(art, 0, tenant_id(u), n, v)
               => create(art, u, n, v, Null).code = Conflict
          /\ (~KeyHeld(art, 0, tenant_id(u), n, v) /\ FreeIds(art) # {})
               => create(art, u, n, v, Null).code = Created
          /\ \A i \in ArtIds :
               (/\ HoldsKey(art, i, tenant_id(u), art[i].name,
                            art[i].version)
                /\ art[i].status = "queued"
                /\ art[i].name = n
                /\ art[i].version # v)
                 => update(art, u, i, "version", v).code
                      = IF KeyHeld(art, i, tenant_id(u), n, v) THEN Conflict
                        ELSE OK)
  /\ [][\A j \in ArtIds :
          (Live(art[j]) /\ art[j].visibility = "private" /\ art'[j] # art[j])
            => \/ HoldsKey(art', j, art[j].owner, art[j].name,
                           art[j].version)
               \/ ~KeyHeld(art', 0, art[j].owner, art[j].name,
                           art[j].version)]_vars

\* The holder of a key was deleted and the key was created again by the
\* same tenant, while another tenant holds an artifact of its own.
C34_Witness ==
  /\ art[1] = Deleted
  /\ HoldsKey(art, 2, "tenant1", "test_af", "0.0.1")
  /\ resp.op = "create"
  /\ resp.code = Created

\* --------------------------------------------- effective change properties
\* The operation of a patch on /status, as a patch of its own.
StatusOnly(ops) ==
  <<ops[CHOOSE k \in DOMAIN ops : ops[k][1] = "status"]>>

\* C35: a patch that gives status a new value and whose other operations
\* all carry the value the attribute already has is handled as the status
\* change alone: same answer, same effect; the owner's activation of a
\* queued artifact with its required attribute set is accepted, and an
\* accepted patch changes the record in status only.
C35_MixedByEffect ==
  [][\A i \in Target :
       (/\ resp = NoResp
        /\ resp'.op = "patch"
        /\ Len(resp'.ops) > 1
        /\ Alters(resp'.ops, art[i], "status")
        /\ \A k \in DOMAIN resp'.ops : resp'.ops[k][1] \notin SystemAttrs
        /\ \A f \in {"name", "version", "string_required", "string_mutable",
                     "visibility"} : ~Alters(resp'.ops, art[i], f))
         => LET alone == patch(art, resp'.by, i, StatusOnly(resp'.ops))
                val == StatusOnly(resp'.ops)[1][2]
            IN /\ resp'.code = alone.code
               /\ art' = alone.art
               /\ resp'.code = OK
                    => art' = [art EXCEPT ![i].status = val]
               /\ (/\ art[i].owner = tenant_id(resp'.by)
                   /\ art[i].status = "queued"
                   /\ art[i].string_required # Null
                   /\ val = "active")
                    => resp'.code = OK
    ]_vars

\* The owner's patch activating the artifact and replacing string_required
\* with the value it had was accepted: the artifact is active.
C35_Witness ==
  /\ resp.op = "patch"
  /\ resp.code = OK
  /\ resp.by = "user1"
  /\ resp.ops = <<(<<"status", "active">>),
                  (<<"string_required", "string">>)>>
  /\ art[1].status = "active"
  /\ art[1].string_required = "string"

\* The place of each version text in the order the specification states:
\* 0.0, 0.0.0 and an omitted version are one version, the first; then
\* 1.0 < 1.1 < 2.0.0 < 2.0.1-beta < 2.0.1 < 20.0.
StatedRank(t) ==
  CASE t \in {Null, "0.0", "0.0.0"} -> 0
    [] t = "1.0" -> 1
    [] t = "1.1" -> 2
    [] t = "2.0.0" -> 3
    [] t = "2.0.1-beta" -> 4
    [] t = "2.0.1" -> 5
    [] t = "20.0" -> 6

StatedMatch(t, f) ==
  CASE f[1] = "eq" -> StatedRank(t) = StatedRank(f[2])
    [] f[1] = "gte" -> StatedRank(t) >= StatedRank(f[2])
    [] f[1] = "lt" -> StatedRank(t) < StatedRank(f[2])
    [] f[1] = "all" -> TRUE

\* C36: versions are compared by value, not as text.  No two artifacts
\* hold versions of equal value, however written; a create is answered
\* Conflict exactly when an artifact holds the same value (0.0, 0.0.0 and an
\* omitted version being one value) and is stored otherwise; a listing
\* returns exactly the artifacts whose version satisfies the filter in the
\* order 1.0 < 1.1 < 2.0.0 < 2.0.1-beta < 2.0.1 < 20.0, sorted in that order
\* (reversed for desc).
C36_VersionsByValue ==
  /\ [](/\ \A i, j \in DOMAIN rows :
             StatedRank(rows[i]) = StatedRank(rows[j]) => i = j
        /\ (pager # NoPager /\ pager.op = "list") =>
             LET r == pager.result IN
             /\ {r[k] : k \in DOMAIN r}
                  = {i \in DOMAIN rows : StatedMatch(rows[i], pager.filter)}
             /\ \A k, l \in DOMAIN r :
                  k < l => IF pager.dir = "asc"
                             THEN StatedRank(rows[r[k]]) < StatedRank(rows[r[l]])
                             ELSE StatedRank(rows[r[k]]) > StatedRank(rows[r[l]]))
  /\ [][(pager'.op = "create") =>
          LET held == \E i \in DOMAIN rows :
                        StatedRank(rows[i]) = StatedRank(pager'.sent)
          IN IF held THEN pager'.code = Conflict /\ rows' = rows
             ELSE pager'.code = Created /\ rows' = Append(rows, pager'.sent)]_vars

\* An omitted version, a release and its pre-release are stored, and the
\* listing by version returns the pre-release before the release.
C36_Witness ==
  /\ rows = <<Null, "2.0.1", "2.0.1-beta">>
  /\ pager # NoPager /\ pager.op = "list" /\ pager.dir = "asc"
  /\ pager.filter[1] = "all"
  /\ pager.result = <<1, 3, 2>>

\* C37: a patch operation on a list of length n.  add at an index i <= n
\* puts the value at position i and moves the elements from i on one place
\* up; add at "-" puts it last; replace at i < n changes element i only;
\* remove at i < n takes element i out and moves the rest one place down;
\* add at an index > n, and replace or remove at an index >= n or at "-",
\* are answered BadRequest with the list unchanged; add or replace with a
\* list value on the attribute path stores that list.
C37_ListPatch ==
  [][LET l == coll.list
         m == coll'.list
         q == coll'.last
         n == Len(coll.list)
         i == ParseIndex(q.tok)
     IN
     /\ q.tok = "" => q.code = OK /\ m = q.whole
     /\ (q.tok = "-" /\ q.op = "add") =>
          /\ q.code = OK /\ Len(m) = n + 1 /\ m[n + 1] = q.elem
          /\ \A k \in 1..n : m[k] = l[k]
     /\ (q.tok = "-" /\ q.op # "add") => q.code = BadRequest /\ m = l
     /\ (IsIndex(q.tok) /\ q.op = "add" /\ i <= n) =>
          /\ q.code = OK /\ Len(m) = n + 1 /\ m[i + 1] = q.elem
          /\ \A k \in 1..n : IF k <= i THEN m[k] = l[k] ELSE m[k + 1] = l[k]
     /\ (IsIndex(q.tok) /\ q.op = "add" /\ i > n) =>
          q.code = BadRequest /\ m = l
     /\ (IsIndex(q.tok) /\ q.op = "replace" /\ i < n) =>
          /\ q.code = OK /\ Len(m) = n /\ m[i + 1] = q.elem
          /\ \A k \in 1..n : k # i + 1 => m[k] = l[k]
     /\ (IsIndex(q.tok) /\ q.op = "remove" /\ i < n) =>
          /\ q.code = OK /\ Len(m) = n - 1
          /\ \A k \in 1..(n - 1) : IF k <= i THEN m[k] = l[k]
                                   ELSE m[k] = l[k + 1]
     /\ (IsIndex(q.tok) /\ q.op # "add" /\ i >= n) =>
          q.code = BadRequest /\ m = l]_vars

\* "b" was put at index 1 of a list of two elements.
C37_Witness ==
  /\ coll.list = <<"a", "b", "a">>
  /\ coll.last.op = "add" /\ coll.last.tok = "1" /\ coll.last.code = OK

Elems(l) == {l[k] : k \in DOMAIN l}

\* The list a well-formed element request asks for has more than three
\* elements or one element twice.
ListBroken(l, q) ==
  LET n == Len(l)
      i == ParseIndex(q.tok)
  IN IF q.op = "add"
       THEN n >= 3 \/ q.elem \in Elems(l)
       ELSE \E k \in 1..n : k # i + 1 /\ l[k] = q.elem

ListWellFormed(l, q) ==
  IF q.op = "add" THEN q.tok = "-" \/ ParseIndex(q.tok) <= Len(l)
  ELSE q.tok # "-" /\ ParseIndex(q.tok) < Len(l)

\* The dict an element request asks for has a key outside abc, def, ghi,
\* jkl or a fourth entry.
DictBroken(d, q) ==
  \/ q.tok \notin {"abc", "def", "ghi", "jkl"}
  \/ d[q.tok] = NoEntry /\ Cardinality(Entries(d)) >= 3

BodyBroken(l, d) ==
  \/ Len(l) > 3
  \/ Cardinality(Elems(l)) # Len(l)
  \/ Cardinality(Entries(d)) > 3
  \/ ~(Entries(d) \subseteq {"abc", "def", "ghi", "jkl"})

\* C38: the collection validators hold in every state reached by creates
\* and patches: list_validators has at most 3 elements, all different, and
\* dict_validators has at most 3 entries with keys among abc, def, ghi, jkl.
\* A create or patch whose result would break a cap, the uniqueness or the
\* allowed keys is answered BadRequest and leaves the stored values as they
\* were; a well-formed request whose result breaks none is accepted and
\* stored.
C38_ValidatorsHold ==
  /\ [](/\ Len(coll.lv) <= 3
        /\ \A i, j \in DOMAIN coll.lv : i # j => coll.lv[i] # coll.lv[j]
        /\ Cardinality(Entries(coll.dv)) <= 3
        /\ Entries(coll.dv) \subseteq {"abc", "def", "ghi", "jkl"})
  /\ [][LET q == coll'.last
            refused == /\ q.code = BadRequest
                       /\ coll'.lv = coll.lv /\ coll'.dv = coll.dv
        IN
        /\ q.kind = "create" =>
             IF BodyBroken(q.list, q.dict) THEN refused
             ELSE /\ q.code = Created
                  /\ coll'.lv = q.list /\ coll'.dv = q.dict
        /\ (q.kind = "list" /\ q.tok = "") =>
             IF BodyBroken(q.list, NoDict) THEN refused
             ELSE q.code = OK /\ coll'.lv = q.list /\ coll'.dv = coll.dv
        /\ (q.kind = "dict" /\ q.tok = "") =>
             IF BodyBroken(<<>>, q.dict) THEN refused
             ELSE q.code = OK /\ coll'.dv = q.dict /\ coll'.lv = coll.lv
        /\ (q.kind = "list" /\ q.tok # "" /\ ListWellFormed(coll.lv, q)) =>
             IF ListBroken(coll.lv, q) THEN refused
             ELSE /\ q.code = OK /\ coll'.dv = coll.dv
                  /\ q.elem \in Elems(coll'.lv)
                  /\ Len(coll'.lv)
                       = Len(coll.lv) + (IF q.op = "add" THEN 1 ELSE 0)
        /\ (q.kind = "dict" /\ q.tok # ""
              /\ (q.op = "replace" => coll.dv[q.tok] # NoEntry)) =>
             IF DictBroken(coll.dv, q) THEN refused
             ELSE /\ q.code = OK /\ coll'.lv = coll.lv
                  /\ coll'.dv = [coll.dv EXCEPT ![q.tok] = q.elem]]_vars

\* Both values are at their caps and a fourth dict entry has been refused.
C38_Witness ==
  /\ Len(coll.lv) = 3
  /\ Cardinality(Entries(coll.dv)) = 3
  /\ coll.last.kind = "dict" /\ coll.last.op = "add"
  /\ coll.last.tok = "jkl" /\ coll.last.code = BadRequest

Slots == ArtIds \X BlobPaths

StatusOf(bl, k) == Slot(bl, k[1], k[2]).status

LeavesSaving ==
  \A k \in Slots : (StatusOf(blobs, k) = "saving") ~> (StatusOf(blobs, k) # "saving")

\* C39 as stated: every slot that enters saving leaves it, it is entered
\* from absent only, and from saving the slot goes to active or absent and
\* nowhere else.
C39_Original ==
  /\ LeavesSaving
  /\ [][\A k \in Slots :
          /\ (StatusOf(blobs, k) # "saving" /\ StatusOf(blobs', k) = "saving")
               => StatusOf(blobs, k) = "absent"
          /\ (StatusOf(blobs, k) = "saving" /\ StatusOf(blobs', k) # "saving")
               => StatusOf(blobs', k) \in {"active", "absent"}]_vars

\* C39: no slot stays in saving.  Every slot that enters saving leaves it,
\* also when the request holding its lease has died; saving is entered from
\* absent only; a slot leaves saving to active when the holder finalizes, to
\* absent when the upload is aborted or the lease times out, and to
\* pending_delete when its artifact is deleted, and goes nowhere else.
C39_NoWedgedSlot ==
  /\ LeavesSaving
  /\ [][\A k \in Slots :
          /\ (StatusOf(blobs, k) # "saving" /\ StatusOf(blobs', k) = "saving")
               => StatusOf(blobs, k) = "absent"
          /\ (StatusOf(blobs, k) = "saving" /\ StatusOf(blobs', k) # "saving")
               => \/ /\ StatusOf(blobs', k) = "active"
                     /\ up[blobs[k].lease].pc = "streaming"
                     /\ up'[blobs[k].lease].code = OK
                  \/ /\ StatusOf(blobs', k) = "absent"
                     /\ Stored(store', k[1], k[2]) = <<>>
                     /\ \/ Dead(up[blobs[k].lease]) /\ up' = up
                        \/ /\ up[blobs[k].lease].pc = "streaming"
                           /\ up'[blobs[k].lease].pc = "done"
                           /\ up'[blobs[k].lease].code # OK
                  \/ /\ StatusOf(blobs', k) = "pending_delete"
                     /\ Live(art[k[1]]) /\ ~Live(art'[k[1]])]_vars

\* The request that held the lease died, the lease timed out, and the slot
\* was taken again and completed by a second request.
C39_Witness ==
  \E k \in Slots :
    /\ StatusOf(blobs, k) = "active"
    /\ Len(up) = 2
    /\ Dead(up[1]) /\ up[1].id = k[1] /\ up[1].path = k[2]
    /\ up[2].pc = "done" /\ up[2].code = OK /\ up[2].kind = "bytes"
    /\ up[2].id = k[1] /\ up[2].path = k[2]

\* The paths of blob slots looked at: the blob attributes and a new key of
\* the blob map.
SlotPaths == BlobPaths \cup {"dict_of_blobs/key2"}

Owners(a) == {u \in Users : ~is_admin(u) /\ tenant_id(u) = a.owner}

EmptySlotOfActive(i, p) ==
  art[i].status = "active" /\ Slot(blobs, i, p).status = "absent"

====
